---- MODULE Spec2Model ----
(***************************************************************************)
(* Model of the tasmota-sim device runtime: the messaging client           *)
(* (messaging.py, AsyncTasmotaMessaging), one device runtime (device.py,   *)
(* TasmotaDevice, driven by create_and_start_device), the device's entry   *)
(* in the process-wide power profile registry (power_profiles.py) and the  *)
(* broker-side command queue of the device.                                *)
(*                                                                         *)
(* Coroutines are split at their await points: every action is the code    *)
(* that runs between two suspensions of one coroutine.                     *)
(*                                                                         *)
(* Units: delays are in eighths of a second (2s = 16, 4.5s = 36, 10s = 80),*)
(* so the backoff arithmetic is exact in the integers; power is in watts   *)
(* and energy in watt-ticks of the model clock `now`.                      *)
(***************************************************************************)
EXTENDS Integers, Sequences, FiniteSets, TLC

(* ---- bounds of the model ---- *)
MaxCommands == 2        \* commands ever routed to the device queue
MaxTime == 1            \* ticks of the wall clock
MaxStops == 2           \* stop() calls of the owner besides the one in `finally`
MaxCalls == 2           \* calls made on the profile registry

(* ---- program constants ---- *)
max_retries == 10              \* messaging.py:41
InitialRetryDelay == 16        \* messaging.py:42   (2.0 s)
RetryDelayCap == 80            \* messaging.py:71   (10 s)
PrefetchCount == 10            \* messaging.py:59
StatusInterval == 240          \* device.py:163     (30 s)
TelemetryInterval == 80        \* device.py:173     (10 s)
HistoricalEnergy == 5          \* device.py:334     (random.uniform(5.0, 500.0))

Min(a, b) == IF a < b THEN a ELSE b

(* Wattages the profile model can yield: standby draw while off, active   *)
(* draw while on (power_profiles.py:280-292); one grid point each.        *)
StandbyRange == {1}
ActiveRange == {2}
ProfileWatts(power_state) == IF power_state THEN ActiveRange ELSE StandbyRange

(* ---- wire messages on the device's command queue ---- *)
KnownCommands == {"power_on", "power_off", "status", "energy"}
CommandNames == KnownCommands \cup {"reboot"}
(* body: "ok" decodes to a CommandMessage; "bad_json" fails json.loads;    *)
(* "missing_field" is JSON without a required field (models.py:38-43).     *)
Bodies ==
    [body : {"ok"}, command : CommandNames]
        \cup [body : {"bad_json", "missing_field"}, command : {"power_on"}]

WellFormed(m) == m.body = "ok"

NoStatus == [power_state |-> FALSE, energy_consumption |-> 0, total_energy |-> 0]
NoTask == [pc |-> "none", failed |-> FALSE, sleep_for |-> 0, payload |-> NoStatus]

VARIABLES
    messaging,      \* fields of AsyncTasmotaMessaging
    attempt,        \* connect(): loop variable
    retry_delay,    \* connect(): local
    waits,          \* connect(): the delays slept so far (history)
    live,           \* the connection carrying channel, exchanges, consumer is open
    orphans,        \* an open connection that connect() has overwritten
    consumerActive, \* the broker has a consumer registered on the device queue
    is_running,     \* TasmotaDevice.is_running
    config,         \* TasmotaDevice.config (power_state, energy fields)
    status_task,    \* TasmotaDevice._status_task
    telemetry_task, \* TasmotaDevice._telemetry_task
    device_state,   \* power_profile_manager.device_states[device_id]
    now,            \* datetime.now()
    inbox,          \* broker: messages routed to the device queue, undelivered
    sent,           \* number of commands sent so far
    handlers,       \* message_handler invocations in progress (unacknowledged deliveries)
    queue_bound,    \* broker: the device queue exists and is bound to its routing key
    tries,          \* connect(): outcome of each attempt made (history)
    connect_result, \* what connect() returned: "none", "true", "false"
    pc,             \* create_and_start_device: position of the caller
    start_result,   \* what start() returned: "none", "true", "false"
    extra_stops,    \* stop() calls made besides the one in `finally` (history)
    device_states,  \* power_profile_manager.device_states, with the profile arithmetic
    call,           \* the last call made on the registry and what it returned (history)
    threads,        \* the HTTP thread and the runtime thread: the registry call each is in
    fleet,          \* broker: the command queues of the devices and what was published
    http,           \* web_server: power_state.POWER, the last request and its response
    codec,          \* a CommandMessage on its way: as sent, on the wire, as decoded
    api,            \* the last call made on the messaging client and what it did (history)
    cli,            \* one run of the cli's status / energy command and its listener
    acks            \* delivery tags the consumer acknowledged, and those whose ack raised (history)

vars == <<messaging, attempt, retry_delay, waits, live, orphans, consumerActive,
          is_running, config, status_task, telemetry_task, device_state, now,
          inbox, sent, handlers, queue_bound, tries,
          connect_result, pc, start_result, extra_stops, device_states, call,
          threads, fleet, http, codec, api, cli, acks>>

connectVars == <<attempt, retry_delay, waits, tries, connect_result>>
clientVars == <<messaging, live, orphans>>
runtimeVars == <<is_running, config, status_task, telemetry_task>>
brokerVars == <<inbox, sent, handlers, consumerActive, queue_bound>>
registryVars == <<device_states, call>>
threadVars == <<threads>>
surfaceVars == <<fleet, http, codec, api, cli, acks>>

(* ---- power profile registry ---- *)

(* DevicePowerState.update_power_consumption: the set of states it can    *)
(* leave the entry in (the wattage is random).                            *)
update_power_consumption(st, t) ==
    { [st EXCEPT !.current_watts = w,
                 !.total_energy_kwh =
                     IF t - st.last_update > 0
                     THEN st.total_energy_kwh + w * (t - st.last_update)
                     ELSE st.total_energy_kwh,
                 !.last_update = t] : w \in ProfileWatts(st.power_state) }

(* PowerProfileManager.set_device_power_state *)
set_device_power_state(st, state, t) ==
    update_power_consumption([st EXCEPT !.power_state = state], t)

(* ---- the profile catalog and the arithmetic of DevicePowerState ---- *)
(* Units: base_watts_min / base_watts_max in W, standby_watts in tenths of *)
(* a watt, variation_factor in percent, every factor in tenths.  A power   *)
(* before the variation is in 1/1000 W, a wattage after it (current_watts) *)
(* in 1/100000 W.  One tick of the clock is a quarter of the profile's     *)
(* cycle period; cycle_position counts quarters of the cycle, 4 being the  *)
(* float 1.0.  cycle_position is a float: `inexact` tells that it is the   *)
(* rounded result of a sum of two amounts or of a reduction modulo 1.0,    *)
(* and so can differ in its last bits from the quotient of one elapsed     *)
(* time.                                                                   *)
Profile(name, category, lo, hi, standby, variation, cycle, tod, seasonal) ==
    [name |-> name, category |-> category, base_watts_min |-> lo,
     base_watts_max |-> hi, standby_watts |-> standby,
     variation_factor |-> variation, cycle_minutes |-> cycle,
     time_of_day_factor |-> tod, seasonal_factor |-> seasonal]

POWER_PROFILES ==
    { Profile("LED Lampe", "lighting", 8, 15, 2, 5, 0, TRUE, FALSE),
      Profile("Halogen Lampe", "lighting", 35, 50, 5, 3, 0, TRUE, FALSE),
      Profile("Smart Lampe", "lighting", 6, 18, 15, 15, 0, TRUE, FALSE),
      Profile("Heizluefter", "heating", 1200, 2000, 20, 20, 15, TRUE, TRUE),
      Profile("Heizkoerper", "heating", 800, 1500, 15, 25, 20, TRUE, TRUE),
      Profile("Infrarotheizer", "heating", 600, 1200, 10, 15, 25, TRUE, TRUE),
      Profile("Kaffeemaschine", "appliance_small", 800, 1200, 25, 30, 0, TRUE, FALSE),
      Profile("Wasserkocher", "appliance_small", 1800, 2200, 8, 10, 0, TRUE, FALSE),
      Profile("Toaster", "appliance_small", 800, 1400, 12, 20, 0, TRUE, FALSE),
      Profile("Mikrowelle", "appliance_large", 1000, 1500, 30, 20, 0, TRUE, FALSE),
      Profile("Kuehlschrank", "appliance_large", 120, 200, 50, 30, 45, TRUE, FALSE),
      Profile("Geschirrspueler", "appliance_large", 1800, 2200, 40, 40, 0, TRUE, FALSE),
      Profile("TV LED", "electronics", 80, 150, 8, 20, 0, TRUE, FALSE),
      Profile("Computer Desktop", "electronics", 200, 400, 80, 40, 0, TRUE, FALSE),
      Profile("Router/Modem", "electronics", 8, 15, 80, 10, 0, TRUE, FALSE),
      Profile("Waschmaschine", "motor", 1800, 2500, 25, 50, 0, TRUE, FALSE),
      Profile("Staubsauger", "motor", 1200, 1800, 10, 30, 0, TRUE, FALSE),
      Profile("Ventilator", "motor", 25, 75, 5, 20, 0, TRUE, TRUE),
      Profile("Ueberwachungskamera", "always_on", 3, 8, 30, 10, 0, TRUE, FALSE),
      Profile("Smart Hub", "always_on", 2, 5, 20, 5, 0, TRUE, FALSE) }

NoProfile == Profile("none", "none", 0, 0, 0, 0, 0, FALSE, FALSE)

Hours == 0..23
Months == 1..12
Max(a, b) == IF a > b THEN a ELSE b

(* random.uniform(-variation_range, variation_range): the draw as a       *)
(* fraction of the range, at its two ends.                                 *)
VariationDraws == {-1, 1}

(* mutant of add_variation: the variation range is twice the factor *)
add_variation_doubled(profile, base_power, u) ==
    Max(0, base_power * 100 + 2 * u * base_power * profile.variation_factor)

(* DevicePowerState._add_variation: max(0.0, base_power + variation) *)
add_variation(profile, base_power, u) ==
    Max(0, base_power * 100 + u * base_power * profile.variation_factor)

(* DevicePowerState._get_time_of_day_factor *)
get_time_of_day_factor(profile, hour) ==
    IF profile.category = "lighting"
    THEN IF (6 <= hour /\ hour <= 8) \/ (17 <= hour /\ hour <= 23) THEN 12
         ELSE IF 0 <= hour /\ hour <= 5 THEN 3
         ELSE 7
    ELSE IF profile.category = "appliance_small"
    THEN IF hour \in {7, 8, 12, 13, 18, 19} THEN 13
         ELSE IF 0 <= hour /\ hour <= 6 THEN 2
         ELSE 10
    ELSE IF profile.category = "electronics"
    THEN IF 18 <= hour /\ hour <= 23 THEN 14
         ELSE IF 9 <= hour /\ hour <= 17 THEN 11
         ELSE IF 0 <= hour /\ hour <= 6 THEN 3
         ELSE 10
    ELSE 10

(* DevicePowerState._get_seasonal_factor *)
get_seasonal_factor(profile, month) ==
    IF profile.category = "heating"
    THEN IF month \in {12, 1, 2} THEN 15
         ELSE IF month \in {3, 11} THEN 12
         ELSE IF month \in {6, 7, 8} THEN 3
         ELSE 10
    ELSE IF profile.category = "motor" /\ profile.name = "Ventilator"
    THEN IF month \in {6, 7, 8} THEN 14
         ELSE IF month \in {5, 9} THEN 11
         ELSE 6
    ELSE 10

(* math.sin(cycle_position * 2 * math.pi) at the quarters of the cycle, in *)
(* tenths; at the half cycle the floating-point value is 1.2e-16, which    *)
(* is positive, at the full cycle (cycle_position 1.0) it is -2.4e-16,     *)
(* which is not.                                                           *)
cycle_value(position) ==
    CASE position = 0 -> 0
      [] position = 1 -> 10
      [] position = 2 -> 0
      [] position = 3 -> -10
      [] position = 4 -> 0
cycle_value_positive(position) == position \in {1, 2}

(* DevicePowerState._get_cycle_factor: the cycle position it stores and    *)
(* the factor it returns.  `(cycle_position + cycle_increment) % 1.0` is   *)
(* float arithmetic: when the clock went back by what an inexact position  *)
(* stands for, the sum is zero or a few 1e-17 off it, and for a sum just   *)
(* below zero Python's % returns 1.0 (rounds_up); for any other sum it     *)
(* returns a value in [0.0, 1.0).                                          *)
get_cycle_factor(st, t, rounds_up) ==
    IF st.profile.cycle_minutes = 0
    THEN [position |-> st.cycle_position, factor |-> 10, inexact |-> st.inexact]
    ELSE LET sum == st.cycle_position + (t - st.last_update)
             position == IF sum = 0 /\ t < st.last_update /\ st.inexact /\ rounds_up
                         THEN 4 ELSE sum % 4
             v == cycle_value(position)
         IN [position |-> position,
             inexact |-> \/ st.inexact
                         \/ st.cycle_position # 0 /\ t # st.last_update
                         \/ sum >= 4 \/ sum < 0,
             factor |->
                IF st.profile.category = "heating"
                THEN IF v > -3 THEN 10 + (v * 2) \div 10 ELSE 1
                ELSE IF st.profile.name = "Kuehlschrank"
                THEN IF cycle_value_positive(position) THEN 10 + (v * 3) \div 10 ELSE 3
                ELSE Max(2, 10 + (v * 4) \div 10)]

(* W * s -> kWh is a division by 1000 * 3600; here 1/100000 W * tick ->    *)
(* energy unit is a division by 1000.                                      *)
EnergyScale == 1000

(* mutant of EnergyAccrues: energy is added whatever the elapsed time *)
EnergyAccruesAlways(time_since_last) == TRUE

(* `if time_since_last > 0` *)
EnergyAccrues(time_since_last) == time_since_last > 0

(* mutant of EnergyAdded: the elapsed time is left out *)
EnergyAddedPerCall(watts, time_since_last) == watts \div EnergyScale

(* `energy_kwh = (self.current_watts * time_since_last) / (1000 * 3600)` *)
EnergyAdded(watts, time_since_last) == (watts * time_since_last) \div EnergyScale

(* mutant of ActivePower: the cycle factor is applied twice *)
ActivePowerCycleTwice(base, time_factor, seasonal_factor, cycle_factor) ==
    (base * time_factor * seasonal_factor * cycle_factor * cycle_factor) \div 10

(* `power = base_power * time_factor * seasonal_factor * cycle_factor` *)
ActivePower(base, time_factor, seasonal_factor, cycle_factor) ==
    base * time_factor * seasonal_factor * cycle_factor

(* DevicePowerState.update_power_consumption with the profile arithmetic:  *)
(* the entry after the call made at time t, hour and month of the clock,   *)
(* base the draw of _calculate_base_power, u the draw of _add_variation,    *)
(* rounds_up the rounding of the cycle position.                           *)
UpdatePowerConsumption(st, t, hour, month, base, u, rounds_up) ==
    LET profile == st.profile
        time_since_last == t - st.last_update
        cycle == IF st.power_state THEN get_cycle_factor(st, t, rounds_up)
                 ELSE [position |-> st.cycle_position, factor |-> 10,
                       inexact |-> st.inexact]
        time_factor == IF profile.time_of_day_factor
                       THEN get_time_of_day_factor(profile, hour) ELSE 10
        seasonal_factor == IF profile.seasonal_factor
                           THEN get_seasonal_factor(profile, month) ELSE 10
        power == IF ~st.power_state
                 THEN profile.standby_watts * 100
                 ELSE ActivePower(base, time_factor, seasonal_factor, cycle.factor)
        watts == add_variation(profile, power, u)
    IN [st EXCEPT
           !.current_watts = watts,
           !.cycle_position = cycle.position,
           !.inexact = cycle.inexact,
           !.total_energy_kwh =
               IF EnergyAccrues(time_since_last)
               THEN @ + EnergyAdded(watts, time_since_last)
               ELSE @,
           !.last_update = t]

(* The inputs update_power_consumption reads besides the entry: the parts  *)
(* of the clock the profile's branch looks at, and the two random draws.   *)
(* The wattage rises with both draws, so they are taken together at their  *)
(* low ends and at their high ends.                                        *)
Inputs(st) ==
    { [hour |-> h, month |-> m,
       base |-> IF u < 0 THEN st.profile.base_watts_min
                ELSE st.profile.base_watts_max,
       u |-> u, rounds_up |-> r] :
        h \in IF st.power_state /\ st.profile.category
                       \in {"lighting", "appliance_small", "electronics"}
              THEN Hours ELSE {0},
        m \in IF st.power_state /\ st.profile.seasonal_factor THEN Months ELSE {1},
        u \in VariationDraws,
        r \in IF st.power_state /\ st.inexact THEN BOOLEAN ELSE {FALSE} }

Updated(st, t) ==
    { UpdatePowerConsumption(st, t, i.hour, i.month, i.base, i.u, i.rounds_up) :
        i \in Inputs(st) }

(* ---- PowerProfileManager ---- *)
Devices == {"A", "B"}

NoEntry == [profile |-> NoProfile, power_state |-> FALSE, current_watts |-> 0,
            cycle_position |-> 0, inexact |-> FALSE, last_update |-> 0,
            total_energy_kwh |-> 0]
(* The last call: its number, device and operation; for set(off) the total *)
(* before the call, carried through a set(on) that follows it directly     *)
(* (toggled).                                                              *)
NoCall == [n |-> 0, device |-> "none", op |-> "none", before |-> 0, toggled |-> FALSE]

(* PowerProfileManager._create_device_state *)
create_device_state(profile, power_state, t) ==
    [profile |-> profile, power_state |-> power_state,
     current_watts |-> profile.standby_watts * 10000,
     cycle_position |-> 0, inexact |-> FALSE, last_update |-> t,
     total_energy_kwh |-> 0]

(* assign_profile_to_device: device A is given a random profile of the     *)
(* catalog, device B the profile named "Kühlschrank".                      *)
AssignableProfiles(d) ==
    IF d = "A" THEN POWER_PROFILES
    ELSE { p \in POWER_PROFILES : p.name = "Kuehlschrank" }

(* ---- the broker's topic exchanges and the fleet of devices ---- *)
(* A device id is the sequence of words between its dots: the broker      *)
(* splits routing keys and binding keys at the dots.  Ids are whatever    *)
(* string the device was started with (device_main.py:17).                *)
FleetIds == { <<"plug_001">>, <<"plug_002">>, <<"plug", "003">>, <<"#">> }

(* f"device.command.{device_id}", f"device.status.{device_id}",           *)
(* f"device.telemetry.{device_id}"                                        *)
RoutingKey(kind, device_id) == <<"device", kind>> \o device_id

(* ExchangeType.TOPIC: the binding key matches the routing key word by    *)
(* word, "*" stands for one word and "#" for any number of words.         *)
RECURSIVE TopicMatches(_, _)
TopicMatches(binding, key) ==
    IF binding = <<>> THEN key = <<>>
    ELSE IF Head(binding) = "#"
    THEN \/ TopicMatches(Tail(binding), key)
         \/ key # <<>> /\ TopicMatches(binding, Tail(key))
    ELSE IF key = <<>> THEN FALSE
    ELSE /\ Head(binding) \in {"*", Head(key)}
         /\ TopicMatches(Tail(binding), Tail(key))

(* No queue declared, nothing published. *)
NoFleet == [bound |-> {}, queues |-> [q \in FleetIds |-> <<>>], published |-> {},
            sent |-> 0]

(* ---- the HTTP control surface (web_server.py) ---- *)
(* Basic credentials of a request: no Authorization header, a header that  *)
(* does not match DEFAULT_USERNAME / DEFAULT_PASSWORD, one that does.      *)
Credentials == {"none", "wrong", "right"}

NoRequest == [endpoint |-> "none", creds |-> "none", arg |-> <<>>]
(* code: the HTTP status; blocks: the top-level keys of the document;      *)
(* energy: the keys of its ENERGY block; power_state: the state it reports *)
NoResponse == [code |-> 0, blocks |-> {}, energy |-> {}, power_state |-> FALSE]

(* `power_state = PowerState(POWER="OFF")`, no request served yet.  run    *)
(* counts the /power/toggle requests served in a row, origin is the        *)
(* registry's power_state before the first of them (history).              *)
NoHttp == [POWER |-> FALSE, request |-> NoRequest, response |-> NoResponse,
           run |-> 0, origin |-> FALSE, n |-> 0]

(* ---- CommandMessage and its JSON form (models.py, messaging.py) ---- *)
(* Strings are sequences of characters.  A Python value of a payload is    *)
(* [k, s, items]: k its type (for the singletons True, False and None the  *)
(* value itself), s the characters of a str or the digits of an int,       *)
(* items the digits of the ints in a list or tuple.                        *)
NoValue == [k |-> "None", s |-> <<>>, items |-> <<>>]
NoMessage == [device_id |-> <<>>, command |-> <<>>, payload |-> {}, timestamp |-> 0]
NoCodec == [phase |-> "idle", given |-> FALSE, sent |-> NoMessage, body |-> NoMessage,
            decoded |-> NoMessage]

(* ---- the two threads of container_main: uvicorn's and asyncio's ---- *)
Threads == {"web", "rt"}

(* A thread that is in no handler: op is the handler it ran last, calls    *)
(* the registry calls the handler still has to make, t and                 *)
(* time_since_last the locals of update_power_consumption, sum the value   *)
(* `self.total_energy_kwh += energy_kwh` is about to store, resp the       *)
(* response or status message the handler made, n the handlers run.        *)
NoThread == [pc |-> "idle", op |-> "none", arg |-> FALSE, calls |-> <<>>, t |-> 0,
             time_since_last |-> 0, sum |-> 0, resp |-> NoStatus,
             replied |-> FALSE, n |-> 0]

(* No call has been made on the client yet. *)
NoApi == [n |-> 0, op |-> "none", result |-> FALSE, published |-> 0]

(* No delivery has reached the end of message.process() yet. *)
NoAcks == [written |-> {}, failed |-> {}]

(* The cli has not been run yet: the command it sends, what send_command   *)
(* returned, whether the response queue is bound, the deliveries waiting   *)
(* in it, whether response_received is set, how the run ended, whether     *)
(* the client was closed; replies / lost count the messages of the device  *)
(* that match the response_handler's test and were published after the     *)
(* command was sent, and those of them that reached no response queue; n   *)
(* counts the messages published on the status and telemetry exchanges.    *)
NoCli == [pc |-> "idle", command |-> "none", success |-> FALSE, bound |-> FALSE,
          queue |-> <<>>, received |-> FALSE, result |-> "none", closed |-> FALSE,
          replies |-> 0, lost |-> 0, n |-> 0]

(* ---- initial state: after TasmotaDevice(config) was constructed ---- *)
RuntimeInit ==
    /\ threads = [th \in Threads |-> NoThread]
    /\ fleet = NoFleet
    /\ http = NoHttp
    /\ codec = NoCodec
    /\ api = NoApi
    /\ cli = NoCli
    /\ acks = NoAcks
    /\ messaging = [connection |-> "None", channel |-> FALSE,
                    command_exchange |-> FALSE, status_exchange |-> FALSE,
                    telemetry_exchange |-> FALSE, device_queue |-> FALSE,
                    is_consuming |-> FALSE]
    /\ attempt = 0
    /\ retry_delay = InitialRetryDelay
    /\ waits = <<>>
    /\ live = FALSE
    /\ orphans = FALSE
    /\ consumerActive = FALSE
    /\ is_running = FALSE
    /\ \E ps \in BOOLEAN : \E w \in ProfileWatts(ps) :
          /\ device_state = [power_state |-> ps, current_watts |-> w,
                             total_energy_kwh |-> 0, last_update |-> 0]
          /\ \E cps \in BOOLEAN :
                config = [power_state |-> cps, energy_consumption |-> w,
                          total_energy |-> HistoricalEnergy]
    /\ status_task = NoTask
    /\ telemetry_task = NoTask
    /\ inbox = <<>>
    /\ sent = 0
    /\ handlers = {}
    /\ queue_bound = FALSE
    /\ tries = <<>>
    /\ connect_result = "none"
    /\ pc = "connecting"
    /\ start_result = "none"
    /\ extra_stops = 0

(* The registry is empty when the module is imported. *)
Init ==
    /\ RuntimeInit
    /\ now = 0
    /\ device_states = [d \in Devices |-> NoEntry]
    /\ call = NoCall

(* ---- AsyncTasmotaMessaging.connect ---- *)

(* Where an attempt can end: at connect_robust, at connection.channel(),   *)
(* at set_qos, at one of the three declare_exchange calls, or with success.*)
ConnectOutcomes == {"ok", "conn", "chan", "qos", "exch1", "exch2", "exch3"}

(* The fields one attempt has assigned before it ended. *)
AttemptFields(m, outcome) ==
    [m EXCEPT
        !.connection = IF outcome = "conn" THEN @ ELSE "open",
        !.channel = IF outcome \in {"conn", "chan"} THEN @ ELSE TRUE,
        !.command_exchange = IF outcome \in {"exch2", "exch3", "ok"} THEN TRUE ELSE @,
        !.status_exchange = IF outcome \in {"exch3", "ok"} THEN TRUE ELSE @,
        !.telemetry_exchange = IF outcome = "ok" THEN TRUE ELSE @]

(* mutant of RetryAfter: the last attempt retries as well *)
RetryAfterLast(a) == a < max_retries

(* `if attempt < max_retries - 1` : another attempt follows a failure *)
RetryAfter(a) == a < max_retries - 1

(* mutant of NextRetryDelay: the cap is missing *)
NextRetryDelayUncapped(d) == (d * 3) \div 2

(* `retry_delay = min(retry_delay * 1.5, 10)` *)
NextRetryDelay(d) == Min((d * 3) \div 2, RetryDelayCap)

(* One pass of the retry loop: the attempt and, when it fails, the except  *)
(* branch with its sleep.  A failure of the last attempt makes connect()   *)
(* return False, start() return False and the caller go to its finally.    *)
ConnectAttempt(outcome) ==
    /\ pc = "connecting"
    /\ attempt < max_retries
    /\ messaging' = AttemptFields(messaging, outcome)
    /\ orphans' = (orphans \/ (outcome # "conn" /\ messaging.connection = "open"))
    /\ tries' = Append(tries, outcome = "ok")
    /\ IF outcome = "ok"
       THEN /\ live' = TRUE
            /\ connect_result' = "true"
            /\ pc' = "setup_queue"
            /\ UNCHANGED <<attempt, retry_delay, waits, start_result>>
       ELSE /\ live' = live
            /\ IF RetryAfter(attempt)
               THEN /\ waits' = Append(waits, retry_delay)
                    /\ retry_delay' = NextRetryDelay(retry_delay)
                    /\ attempt' = attempt + 1
                    /\ UNCHANGED <<connect_result, pc, start_result>>
               ELSE /\ connect_result' = "false"
                    /\ start_result' = "false"
                    /\ pc' = "stopping"
                    /\ UNCHANGED <<attempt, retry_delay, waits>>
    /\ UNCHANGED <<surfaceVars, threadVars, registryVars, extra_stops, runtimeVars, brokerVars, device_state, now>>

(* ---- TasmotaDevice.start after connect(): setup_device_queue, then the  *)
(* ---- two publisher tasks                                                *)
QueueOutcomes == {"ok", "declare", "bind"}

(* asyncio.create_task: the task runs when the loop next schedules it *)
NewTask == [NoTask EXCEPT !.pc = "sleeping"]

(* The tasks start() creates once the queue is set up. *)
StartedTasks == [status |-> NewTask, telemetry |-> NewTask]

(* mutant of QueueSetupOk: a failed bind is not reported *)
QueueSetupOkUnboundQueue(outcome, channel) == channel /\ outcome # "declare"

(* What setup_device_queue returns: False without a channel, False when  *)
(* declare_queue or bind raises.                                          *)
QueueSetupOk(outcome, channel) == channel /\ outcome = "ok"

StartSetupQueue(outcome) ==
    /\ pc = "setup_queue"
    /\ messaging' = [messaging EXCEPT
                        !.device_queue = IF outcome = "declare" THEN @ ELSE TRUE]
    /\ queue_bound' = (queue_bound \/ outcome = "ok")
    /\ IF QueueSetupOk(outcome, messaging.channel)
       THEN /\ is_running' = TRUE
            /\ status_task' = StartedTasks.status
            /\ telemetry_task' = StartedTasks.telemetry
            /\ start_result' = "true"
            /\ pc' = "running"
       ELSE /\ start_result' = "false"
            /\ pc' = "stopping"
            /\ UNCHANGED <<is_running, status_task, telemetry_task>>
    /\ UNCHANGED <<surfaceVars, threadVars, registryVars, extra_stops, connectVars, live, orphans, config, device_state, now,
                   inbox, sent, handlers, consumerActive>>

(* ---- TasmotaDevice._start_consuming / messaging.start_consuming ---- *)
(* start() does not call it; the owner of the runtime may call it while    *)
(* the runtime runs, which registers the consumer callback on the queue.   *)
StartConsuming ==
    /\ pc = "running"
    /\ messaging.device_queue
    /\ ~messaging.is_consuming
    /\ live
    /\ messaging' = [messaging EXCEPT !.is_consuming = TRUE]
    /\ consumerActive' = TRUE
    /\ UNCHANGED <<surfaceVars, threadVars, registryVars, extra_stops, connectVars, live, orphans, runtimeVars, device_state, now,
                   inbox, sent, handlers, queue_bound, pc, start_result>>

(* ---- the two publisher loops ---- *)

(* The fields of a StatusResponse / TelemetryData taken from config. *)
StatusOf(c) == [power_state |-> c.power_state,
                energy_consumption |-> c.energy_consumption,
                total_energy |-> c.total_energy]

(* mutant of AfterFailedTick: a failed publish ends the loop *)
AfterFailedTickReturns == "done"

(* Where a publisher goes after a tick whose publish failed or raised:     *)
(* both branches of the loop body end in the sleep.                        *)
AfterFailedTick == "sleeping"

(* mutant of UpdateEnergy: the reading also switches the device off *)
UpdateEnergySwitchesOff(c, st, t) ==
    { [reg |-> [s EXCEPT !.power_state = FALSE],
       cfg |-> [c EXCEPT !.power_state = FALSE]] : s \in update_power_consumption(st, t) }

(* TasmotaDevice._update_energy: the registry entries and config values    *)
(* it can produce.                                                         *)
UpdateEnergy(c, st, t) ==
    UNION { { [reg |-> s2,
               cfg |-> [c EXCEPT !.energy_consumption = s1.current_watts,
                                 !.total_energy = IF s2.total_energy_kwh > 0
                                                  THEN s2.total_energy_kwh ELSE @]] :
                s2 \in update_power_consumption(s1, t) } :
            s1 \in update_power_consumption(st, t) }

(* _status_publisher: the task resumes (first run, or its sleep is over),  *)
(* tests the loop condition and runs _publish_status up to the await of    *)
(* exchange.publish; publish_status returns False at once when the         *)
(* exchange is not set.                                                    *)
StatusTick ==
    /\ status_task.pc = "sleeping"
    /\ IF ~is_running
       THEN status_task' = [status_task EXCEPT !.pc = "done", !.failed = FALSE,
                                                 !.sleep_for = 0]
       ELSE IF ~messaging.status_exchange
       THEN status_task' = [status_task EXCEPT !.pc = AfterFailedTick,
                                !.failed = TRUE, !.sleep_for = StatusInterval]
       ELSE status_task' = [status_task EXCEPT !.pc = "publishing",
                                !.failed = FALSE, !.sleep_for = 0,
                                !.payload = StatusOf(config)]
    /\ UNCHANGED <<surfaceVars, threadVars, registryVars, extra_stops, connectVars, clientVars, is_running, config, telemetry_task,
                   device_state, now, brokerVars, pc, start_result>>

(* The awaited exchange.publish returns (ok: the message is on the         *)
(* exchange) or raises, which publish_status turns into False; then the    *)
(* loop sleeps 30 s.                                                       *)
StatusPublishDone(ok) ==
    /\ status_task.pc = "publishing"
    /\ ok => live
    /\ status_task' = [status_task EXCEPT
                          !.pc = IF ok THEN "sleeping" ELSE AfterFailedTick,
                          !.failed = ~ok,
                          !.sleep_for = StatusInterval,
                          !.payload = NoStatus]
    /\ UNCHANGED <<surfaceVars, threadVars, registryVars, extra_stops, connectVars, clientVars, is_running, config, telemetry_task,
                   device_state, now, brokerVars, pc, start_result>>

(* _telemetry_publisher: as the status loop, with _update_energy run       *)
(* first by _publish_telemetry; the loop sleeps 10 s.                      *)
TelemetryTick ==
    /\ telemetry_task.pc = "sleeping"
    /\ IF ~is_running
       THEN /\ telemetry_task' = [telemetry_task EXCEPT !.pc = "done",
                                       !.failed = FALSE, !.sleep_for = 0]
            /\ UNCHANGED <<config, device_state>>
       ELSE \E u \in UpdateEnergy(config, device_state, now) :
            /\ config' = u.cfg
            /\ device_state' = u.reg
            /\ IF ~messaging.telemetry_exchange
               THEN telemetry_task' = [telemetry_task EXCEPT !.pc = AfterFailedTick,
                                          !.failed = TRUE,
                                          !.sleep_for = TelemetryInterval]
               ELSE telemetry_task' = [telemetry_task EXCEPT !.pc = "publishing",
                                          !.failed = FALSE, !.sleep_for = 0,
                                          !.payload = StatusOf(u.cfg)]
    /\ UNCHANGED <<surfaceVars, threadVars, registryVars, extra_stops, connectVars, clientVars, is_running, status_task, now,
                   brokerVars, pc, start_result>>

TelemetryPublishDone(ok) ==
    /\ telemetry_task.pc = "publishing"
    /\ ok => live
    /\ telemetry_task' = [telemetry_task EXCEPT
                             !.pc = IF ok THEN "sleeping" ELSE AfterFailedTick,
                             !.failed = ~ok,
                             !.sleep_for = TelemetryInterval,
                             !.payload = NoStatus]
    /\ UNCHANGED <<surfaceVars, threadVars, registryVars, extra_stops, connectVars, clientVars, is_running, config, status_task,
                   device_state, now, brokerVars, pc, start_result>>

(* ---- the command consumer: start_consuming.message_handler ---- *)

(* mutant of SetPowerState: the registry entry is not told *)
SetPowerStateConfigOnly(c, st, state, t) ==
    { [reg |-> st,
       cfg |-> [c EXCEPT !.power_state = state,
                         !.energy_consumption = st.current_watts]] }

(* TasmotaDevice._set_power_state: config and registry entry after it     *)
(* (set_device_power_state, then get_device_info's own update).           *)
SetPowerState(c, st, state, t) ==
    UNION { { [reg |-> s2,
               cfg |-> [c EXCEPT !.power_state = state,
                                 !.energy_consumption = s1.current_watts]] :
                s2 \in update_power_consumption(s1, t) } :
            s1 \in set_device_power_state(st, state, t) }

(* Delivery tags count the deliveries made to the consumer. *)
Delivered == sent - Len(inbox)

(* A message_handler invocation: its message, where it is suspended       *)
(* ("pub_status", "pub_telemetry": in exchange.publish; "acking": in the  *)
(* acknowledgement that message.process() sends when the body is left),   *)
(* the payload it publishes, whether _handle_command was called, how many *)
(* publish calls it made and how many messages went out.                  *)
Handler(tag, m, at, payload, wasDispatched, calls, published) ==
    [tag |-> tag, msg |-> m, pc |-> at, payload |-> payload,
     dispatched |-> wasDispatched, calls |-> calls, published |-> published]

(* mutant of HandleUnknown: an unknown name is answered with a status *)
HandleUnknownAsStatus(tag, m) == Handler(tag, m, "pub_status", NoStatus, TRUE, 1, 0)

(* What the dispatcher does with a command name it does not know:         *)
(* nothing; the handler returns and the delivery is acknowledged.         *)
HandleUnknown(tag, m) == Handler(tag, m, "acking", NoStatus, TRUE, 0, 0)

(* mutant of HandleMalformed: the dispatcher is called all the same *)
HandleMalformedDispatched(tag, m) == Handler(tag, m, "acking", NoStatus, TRUE, 0, 0)

(* What message_handler does with a body that fails to decode: the        *)
(* exception is caught, the dispatcher is not called, the delivery is     *)
(* acknowledged.                                                           *)
HandleMalformed(tag, m) == Handler(tag, m, "acking", NoStatus, FALSE, 0, 0)

(* A dispatcher branch that publishes: the handler suspends in            *)
(* exchange.publish, or publish_* returns False at once when the exchange *)
(* is not set and the handler goes on to acknowledge.                     *)
HandlePublish(tag, m, kind, payload, exchange) ==
    Handler(tag, m, IF exchange THEN kind ELSE "acking", payload, TRUE, 1, 0)

(* How many deliveries the broker leaves unacknowledged at this consumer. *)
DeliveryWindow == PrefetchCount

(* The broker delivers the head of the queue while fewer than             *)
(* DeliveryWindow deliveries are unacknowledged; the consumer callback    *)
(* runs as a task of its own, from json.loads through _handle_command up  *)
(* to its first await.                                                     *)
HandlerBegin ==
    /\ consumerActive
    /\ live
    /\ inbox # <<>>
    /\ Cardinality(handlers) < DeliveryWindow
    /\ inbox' = Tail(inbox)
    /\ LET m == Head(inbox)
           tag == Delivered + 1
       IN
       IF ~WellFormed(m)
       THEN /\ handlers' = handlers \cup {HandleMalformed(tag, m)}
            /\ UNCHANGED <<config, device_state>>
       ELSE IF m.command \in {"power_on", "power_off"}
       THEN \E u \in SetPowerState(config, device_state, m.command = "power_on", now) :
            /\ config' = u.cfg
            /\ device_state' = u.reg
            /\ handlers' = handlers \cup
                   {HandlePublish(tag, m, "pub_status", StatusOf(u.cfg),
                                  messaging.status_exchange)}
       ELSE IF m.command = "status"
       THEN /\ handlers' = handlers \cup
                   {HandlePublish(tag, m, "pub_status", StatusOf(config),
                                  messaging.status_exchange)}
            /\ UNCHANGED <<config, device_state>>
       ELSE IF m.command = "energy"
       THEN \E u \in UpdateEnergy(config, device_state, now) :
            /\ config' = u.cfg
            /\ device_state' = u.reg
            /\ handlers' = handlers \cup
                   {HandlePublish(tag, m, "pub_telemetry", StatusOf(u.cfg),
                                  messaging.telemetry_exchange)}
       ELSE /\ handlers' = handlers \cup {HandleUnknown(tag, m)}
            /\ UNCHANGED <<config, device_state>>
    /\ UNCHANGED <<surfaceVars, threadVars, registryVars, extra_stops, connectVars, clientVars, is_running, status_task, telemetry_task,
                   now, sent, consumerActive, queue_bound, pc, start_result>>

(* The handler's awaited publish returns (ok: the message is on the       *)
(* exchange) or raises; _handle_command returns and message.process()     *)
(* goes on to acknowledge the delivery.                                   *)
HandlerPublishDone(h, ok) ==
    /\ h \in handlers
    /\ h.pc \in {"pub_status", "pub_telemetry"}
    /\ ok => live
    /\ handlers' = (handlers \ {h}) \cup
           {[h EXCEPT !.pc = "acking", !.published = IF ok THEN 1 ELSE 0]}
    /\ UNCHANGED <<surfaceVars, threadVars, registryVars, extra_stops, connectVars, clientVars, runtimeVars, device_state, now,
                   inbox, sent, consumerActive, queue_bound, pc, start_result>>

(* message.process() is left and calls message.ack(): the acknowledgement *)
(* is written when the connection is open; on a closed connection ack()   *)
(* raises, the delivery stays unacknowledged and the broker requeues it.  *)
(* Either way the handler task ends.                                       *)
HandlerAck(h) ==
    /\ h \in handlers
    /\ h.pc = "acking"
    /\ handlers' = handlers \ {h}
    /\ acks' = IF live THEN [acks EXCEPT !.written = @ \cup {h.tag}]
                       ELSE [acks EXCEPT !.failed = @ \cup {h.tag}]
    /\ UNCHANGED <<fleet, http, codec, api, cli, threadVars, registryVars, extra_stops, connectVars, clientVars, runtimeVars, device_state, now,
                   inbox, sent, consumerActive, queue_bound, pc, start_result>>

(* ---- the environment ---- *)

(* send_command from the client tooling: routed to the device queue. *)
SendCommand(m) ==
    /\ queue_bound
    /\ sent < MaxCommands
    /\ inbox' = Append(inbox, m)
    /\ sent' = sent + 1
    /\ UNCHANGED <<surfaceVars, threadVars, registryVars, extra_stops, connectVars, clientVars, runtimeVars, device_state, now,
                   handlers, consumerActive, queue_bound, pc, start_result>>

Tick ==
    /\ now < MaxTime
    /\ now' = now + 1
    /\ UNCHANGED <<surfaceVars, threadVars, registryVars, extra_stops, connectVars, clientVars, runtimeVars, device_state,
                   brokerVars, pc, start_result>>

(* create_and_start_device: KeyboardInterrupt or an exception ends the    *)
(* run loop and control reaches `finally: await device.stop()`.           *)
Interrupt ==
    /\ pc = "running"
    /\ pc' = "stopping"
    /\ UNCHANGED <<surfaceVars, threadVars, registryVars, extra_stops, connectVars, clientVars, runtimeVars, device_state, now,
                   brokerVars, start_result>>

(* ---- TasmotaDevice.stop ---- *)

Active(task) == task.pc \in {"publishing", "sleeping"}

(* task.cancel() followed by `await task`: CancelledError ends the task   *)
(* at the await it is suspended in.                                       *)
Cancel(task) ==
    IF Active(task) THEN [task EXCEPT !.pc = "cancelled", !.failed = FALSE,
                                      !.sleep_for = 0, !.payload = NoStatus]
    ELSE task

(* is_running = False, then the status task is cancelled and awaited. *)
StopBegin ==
    /\ pc = "stopping"
    /\ is_running' = FALSE
    /\ status_task' = Cancel(status_task)
    /\ pc' = "stop_telemetry"
    /\ UNCHANGED <<surfaceVars, threadVars, registryVars, extra_stops, connectVars, clientVars, config, telemetry_task, device_state,
                   now, brokerVars, start_result>>

(* The telemetry task is cancelled and awaited. *)
StopTelemetry ==
    /\ pc = "stop_telemetry"
    /\ telemetry_task' = Cancel(telemetry_task)
    /\ pc' = "closing"
    /\ UNCHANGED <<surfaceVars, threadVars, registryVars, extra_stops, connectVars, clientVars, is_running, config, status_task,
                   device_state, now, brokerVars, start_result>>

(* stop() called again after stop() has returned: the same code runs.     *)
StopAgain ==
    /\ pc = "exited"
    /\ extra_stops < MaxStops
    /\ extra_stops' = extra_stops + 1
    /\ pc' = "stopping"
    /\ UNCHANGED <<surfaceVars, threadVars, registryVars, connectVars, clientVars, runtimeVars,
                   device_state, now, brokerVars, start_result>>

(* ---- AsyncTasmotaMessaging.close ---- *)

(* the `finally` block *)
Cleared(m) == [m EXCEPT !.connection = "None", !.channel = FALSE,
                        !.command_exchange = FALSE, !.status_exchange = FALSE,
                        !.telemetry_exchange = FALSE, !.device_queue = FALSE]

(* `await self.device_queue.cancel()`.  When it raises, the except branch *)
(* is taken, connection.close() is skipped and the finally block runs.    *)
CloseCancelConsumer(raises) ==
    /\ pc = "closing"
    /\ messaging.is_consuming /\ messaging.device_queue
    /\ IF raises
       THEN /\ messaging' = Cleared(messaging)
            /\ pc' = "exited"
            /\ UNCHANGED consumerActive
       ELSE /\ messaging' = [messaging EXCEPT !.is_consuming = FALSE]
            /\ consumerActive' = FALSE
            /\ pc' = "close_conn"
    /\ UNCHANGED <<surfaceVars, threadVars, registryVars, extra_stops, connectVars, live, orphans, runtimeVars, device_state, now,
                   inbox, sent, handlers, queue_bound, start_result>>

(* `if self.connection and not self.connection.is_closed: close()`, then  *)
(* the finally block.  Closing the connection ends its consumers.         *)
CloseConnection ==
    /\ \/ pc = "close_conn"
       \/ pc = "closing" /\ ~(messaging.is_consuming /\ messaging.device_queue)
    /\ messaging' = Cleared(messaging)
    /\ IF messaging.connection = "open"
       THEN /\ live' = FALSE
            /\ consumerActive' = FALSE
       ELSE UNCHANGED <<live, consumerActive>>
    /\ pc' = "exited"
    /\ UNCHANGED <<surfaceVars, threadVars, registryVars, extra_stops, connectVars, orphans, runtimeVars, device_state, now,
                   inbox, sent, handlers, queue_bound, start_result>>

(* stop() on a runtime whose start() was never called: no task exists and  *)
(* the client holds nothing, so no await of stop() or close() suspends and *)
(* the call runs in one piece.                                             *)
StopUnstarted ==
    /\ pc = "connecting"
    /\ tries = <<>>
    /\ extra_stops < MaxStops
    /\ extra_stops' = extra_stops + 1
    /\ is_running' = FALSE
    /\ status_task' = Cancel(status_task)
    /\ telemetry_task' = Cancel(telemetry_task)
    /\ ~(messaging.is_consuming /\ messaging.device_queue)
    /\ messaging.connection # "open"
    /\ messaging' = Cleared(messaging)
    /\ UNCHANGED <<surfaceVars, threadVars, registryVars, connectVars, live, orphans, config,
                   device_state, now, brokerVars, pc, start_result>>

Next ==
    \/ \E o \in ConnectOutcomes : ConnectAttempt(o)
    \/ \E o \in QueueOutcomes : StartSetupQueue(o)
    \/ StartConsuming
    \/ StatusTick
    \/ \E ok \in BOOLEAN : StatusPublishDone(ok)
    \/ TelemetryTick
    \/ \E ok \in BOOLEAN : TelemetryPublishDone(ok)
    \/ HandlerBegin
    \/ \E h \in handlers : \E ok \in BOOLEAN : HandlerPublishDone(h, ok)
    \/ \E h \in handlers : HandlerAck(h)
    \/ \E m \in Bodies : SendCommand(m)
    \/ Tick
    \/ Interrupt
    \/ StopBegin
    \/ StopTelemetry
    \/ \E r \in BOOLEAN : CloseCancelConsumer(r)
    \/ CloseConnection
    \/ StopAgain
    \/ StopUnstarted

Spec == Init /\ [][Next]_vars

(* ---- the runtime when no command is sent to the device ---- *)
QuietNext ==
    \/ \E o \in ConnectOutcomes : ConnectAttempt(o)
    \/ \E o \in QueueOutcomes : StartSetupQueue(o)
    \/ StartConsuming
    \/ StatusTick
    \/ \E ok \in BOOLEAN : StatusPublishDone(ok)
    \/ TelemetryTick
    \/ \E ok \in BOOLEAN : TelemetryPublishDone(ok)
    \/ Tick
    \/ Interrupt
    \/ StopBegin
    \/ StopTelemetry
    \/ \E r \in BOOLEAN : CloseCancelConsumer(r)
    \/ CloseConnection
    \/ StopAgain
    \/ StopUnstarted

QuietSpec == Init /\ [][QuietNext]_vars

(* The event loop runs every task that is ready: a publisher whose sleep  *)
(* is over, a publish whose outcome has arrived.                          *)
QuietFairSpec ==
    /\ QuietSpec
    /\ WF_vars(StatusTick)
    /\ WF_vars(TelemetryTick)
    /\ WF_vars(\E ok \in BOOLEAN : StatusPublishDone(ok))
    /\ WF_vars(\E ok \in BOOLEAN : TelemetryPublishDone(ok))

(* ---- the command consumer between two ticks of the publisher loops:   *)
(* ---- both loops stay in their sleep and the clock does not advance     *)
ConsumerNext ==
    \/ \E o \in ConnectOutcomes : ConnectAttempt(o)
    \/ \E o \in QueueOutcomes : StartSetupQueue(o)
    \/ StartConsuming
    \/ HandlerBegin
    \/ \E h \in handlers : \E ok \in BOOLEAN : HandlerPublishDone(h, ok)
    \/ \E h \in handlers : HandlerAck(h)
    \/ \E m \in Bodies : SendCommand(m)
    \/ Interrupt
    \/ StopBegin
    \/ StopTelemetry
    \/ \E r \in BOOLEAN : CloseCancelConsumer(r)
    \/ CloseConnection

ConsumerSpec == Init /\ [][ConsumerNext]_vars

(* ---- the registry on its own: calls on PowerProfileManager, one at a  *)
(* ---- time, and a wall clock that can be set forward and back            *)
Present(d) == device_states[d].profile # NoProfile

(* mutant of Stored: the entry is stored under every device id *)
StoredForAll(states, d, e) == [x \in Devices |-> e]

(* `self.device_states[device_id] = ...` and the writes to the fields of   *)
(* `self.device_states[device_id]`: the entry of d, and no other.          *)
Stored(states, d, e) == [states EXCEPT ![d] = e]

(* `if device_id not in self.device_states: assign_profile_to_device` *)
Ensured(d) ==
    IF Present(d) THEN {device_states[d]}
    ELSE { create_device_state(p, ps, now) :
               p \in AssignableProfiles(d), ps \in BOOLEAN }

Recorded(d, op, total_before) ==
    LET toggled == op = "set_on" /\ call.op = "set_off" /\ call.device = d
    IN [n |-> call.n + 1, device |-> d, op |-> op,
        before |-> IF op = "set_off" THEN total_before
                   ELSE IF toggled THEN call.before ELSE 0,
        toggled |-> toggled]

AssignProfileToDevice(d) ==
    /\ call.n < MaxCalls
    /\ \E p \in AssignableProfiles(d) : \E ps \in BOOLEAN :
          device_states' = Stored(device_states, d, create_device_state(p, ps, now))
    /\ call' = Recorded(d, "assign", 0)
    /\ UNCHANGED <<surfaceVars, threadVars, extra_stops, connectVars, clientVars, runtimeVars,
                   device_state,
                   now, brokerVars, pc, start_result>>

(* mutant of Switched: switching also starts the energy total anew *)
SwitchedAnew(e, power_state) ==
    [e EXCEPT !.power_state = power_state, !.total_energy_kwh = 0]

(* `device_state.power_state = power_state` *)
Switched(e, power_state) == [e EXCEPT !.power_state = power_state]

SetDevicePowerState(d, power_state) ==
    /\ call.n < MaxCalls
    /\ \E e \in Ensured(d) :
          \E new \in Updated(Switched(e, power_state), now) :
             /\ device_states' = Stored(device_states, d, new)
             /\ call' = Recorded(d, IF power_state THEN "set_on" ELSE "set_off",
                                 e.total_energy_kwh)
    /\ UNCHANGED <<surfaceVars, threadVars, extra_stops, connectVars, clientVars, runtimeVars,
                   device_state,
                   now, brokerVars, pc, start_result>>

GetDevicePowerConsumption(d) ==
    /\ call.n < MaxCalls
    /\ \E e \in Ensured(d) : \E new \in Updated(e, now) :
          device_states' = Stored(device_states, d, new)
    /\ call' = Recorded(d, "get", 0)
    /\ UNCHANGED <<surfaceVars, threadVars, extra_stops, connectVars, clientVars, runtimeVars,
                   device_state,
                   now, brokerVars, pc, start_result>>

(* get_device_total_energy: 0.0 for a device that has no entry *)
GetDeviceTotalEnergy(d) ==
    /\ call.n < MaxCalls
    /\ IF ~Present(d)
       THEN UNCHANGED device_states
       ELSE \E new \in Updated(device_states[d], now) :
               device_states' = Stored(device_states, d, new)
    /\ call' = Recorded(d, "get", 0)
    /\ UNCHANGED <<surfaceVars, threadVars, extra_stops, connectVars, clientVars, runtimeVars,
                   device_state,
                   now, brokerVars, pc, start_result>>

GetDeviceInfo(d) ==
    /\ call.n < MaxCalls
    /\ \E e \in Ensured(d) : \E new \in Updated(e, now) :
          device_states' = Stored(device_states, d, new)
    /\ call' = Recorded(d, "get", 0)
    /\ UNCHANGED <<surfaceVars, threadVars, extra_stops, connectVars, clientVars, runtimeVars,
                   device_state,
                   now, brokerVars, pc, start_result>>

(* datetime.now() is the wall clock: it can be set, also back.  Only the   *)
(* calls read it, so it stops with the last of them.                       *)
ClockSet(t) ==
    /\ call.n < MaxCalls
    /\ t # now
    /\ now' = t
    /\ UNCHANGED <<surfaceVars, threadVars, registryVars, extra_stops, connectVars, clientVars, runtimeVars,
                   device_state, brokerVars, pc, start_result>>

ProfileNext ==
    \/ \E d \in Devices : AssignProfileToDevice(d)
    \/ \E d \in Devices : \E ps \in BOOLEAN : SetDevicePowerState(d, ps)
    \/ \E d \in Devices : GetDevicePowerConsumption(d)
    \/ \E d \in Devices : GetDeviceTotalEnergy(d)
    \/ \E d \in Devices : GetDeviceInfo(d)
    \/ \E t \in 0..MaxTime : ClockSet(t)

(* No runtime is constructed: its variables keep one initial value. *)
ProfileInit == Init /\ ~config.power_state /\ ~device_state.power_state

ProfileSpec == ProfileInit /\ [][ProfileNext]_vars

(* ---- one device that is switched: the registry after device A was     *)
(* ---- assigned a profile at time 0 and updated once at time 1, then the  *)
(* ---- calls that switch and read it                                      *)
ToggleInit ==
    /\ RuntimeInit
    /\ ~config.power_state /\ ~device_state.power_state
    /\ now = 1
    /\ call = NoCall
    /\ \E p \in AssignableProfiles("A") : \E ps \in BOOLEAN :
          \E e \in Updated(create_device_state(p, ps, 0), 1) :
             device_states = [d \in Devices |-> IF d = "A" THEN e ELSE NoEntry]

ToggleNext ==
    \/ \E ps \in BOOLEAN : SetDevicePowerState("A", ps)
    \/ GetDevicePowerConsumption("A")
    \/ \E t \in 0..MaxTime : ClockSet(t)

ToggleSpec == ToggleInit /\ [][ToggleNext]_vars

(* ---- one device through its cycle: the registry after device A was      *)
(* ---- assigned a profile at one instant and updated once at another,     *)
(* ---- then updates at instants up to three quarters of a cycle apart;    *)
(* ---- the profiles are one with a cycle period and one without          *)
CycleInit ==
    /\ RuntimeInit
    /\ ~config.power_state /\ ~device_state.power_state
    /\ call = NoCall
    /\ \E p \in { q \in POWER_PROFILES : q.name \in {"Kuehlschrank", "Waschmaschine"} } :
       \E ps \in BOOLEAN : \E t0, t1 \in 0..3 :
          /\ now = t1
          /\ \E e \in Updated(create_device_state(p, ps, t0), t1) :
                device_states = [d \in Devices |-> IF d = "A" THEN e ELSE NoEntry]

CycleNext ==
    \/ \E ps \in BOOLEAN : SetDevicePowerState("A", ps)
    \/ GetDevicePowerConsumption("A")
    \/ \E t \in 0..3 : ClockSet(t)

CycleSpec == CycleInit /\ [][CycleNext]_vars

(* ---- the HTTP thread and the runtime thread on one registry entry ----- *)
(* Both threads call power_profile_manager for the same device id; the     *)
(* interpreter can switch threads between any two bytecodes, and nothing   *)
(* in the registry takes a lock.                                           *)

(* What each thread runs: the /power and /status handlers of web_server,   *)
(* and _set_power_state (with the status it publishes), _update_energy     *)
(* and _publish_status of the runtime.                                     *)
ThreadOps(th) ==
    IF th = "web" THEN {"http_power", "http_status"}
    ELSE {"set_power", "update_energy", "publish_status"}

(* The registry calls a handler makes, in order. *)
Script(op) ==
    CASE op = "http_power" -> <<"set">>
      [] op = "http_status" -> <<"info", "consumption", "total">>
      [] op = "set_power" -> <<"set", "info">>
      [] op = "update_energy" -> <<"consumption", "total">>
      [] op = "publish_status" -> <<>>

threadFrame == <<surfaceVars, registryVars, extra_stops, connectVars, clientVars, is_running,
                 status_task, telemetry_task, now, brokerVars, pc, start_result>>

(* A handler starts; _set_power_state first assigns config.power_state. *)
Begin(th, op, arg) ==
    /\ threads[th].pc = "idle"
    /\ threads[th].n < MaxCalls
    /\ op \in ThreadOps(th)
    /\ threads' = [threads EXCEPT ![th] =
                      [NoThread EXCEPT !.pc = IF Script(op) = <<>> THEN "reply" ELSE "call",
                                       !.op = op, !.arg = arg, !.calls = Script(op),
                                       !.n = threads[th].n + 1]]
    /\ config' = IF op = "set_power" THEN [config EXCEPT !.power_state = arg]
                 ELSE config
    /\ UNCHANGED <<threadFrame, device_state>>

(* The next registry call is entered: set_device_power_state assigns       *)
(* power_state; update_power_consumption reads the clock and last_update.  *)
EnterCall(th) ==
    /\ threads[th].pc = "call"
    /\ device_state' = IF Head(threads[th].calls) = "set"
                       THEN [device_state EXCEPT !.power_state = threads[th].arg]
                       ELSE device_state
    /\ threads' = [threads EXCEPT ![th].pc = "upd_watts",
                                  ![th].t = now,
                                  ![th].time_since_last = now - device_state.last_update]
    /\ UNCHANGED <<threadFrame, config>>

(* `self.current_watts = self._add_variation(...)` for the power_state the *)
(* entry has now.                                                          *)
UpdateWatts(th) ==
    /\ threads[th].pc = "upd_watts"
    /\ \E w \in ProfileWatts(device_state.power_state) :
          device_state' = [device_state EXCEPT !.current_watts = w]
    /\ threads' = [threads EXCEPT ![th].pc = "upd_energy"]
    /\ UNCHANGED <<threadFrame, config>>

(* `if time_since_last > 0`, and the right-hand side of                    *)
(* `self.total_energy_kwh += energy_kwh`.                                  *)
UpdateEnergyRead(th) ==
    /\ threads[th].pc = "upd_energy"
    /\ threads' = IF threads[th].time_since_last > 0
                  THEN [threads EXCEPT
                           ![th].pc = "upd_total",
                           ![th].sum = device_state.total_energy_kwh
                                       + device_state.current_watts
                                         * threads[th].time_since_last]
                  ELSE [threads EXCEPT ![th].pc = "upd_stamp"]
    /\ UNCHANGED <<threadFrame, config, device_state>>

(* The store of `self.total_energy_kwh += energy_kwh`. *)
UpdateEnergyWrite(th) ==
    /\ threads[th].pc = "upd_total"
    /\ device_state' = [device_state EXCEPT !.total_energy_kwh = threads[th].sum]
    /\ threads' = [threads EXCEPT ![th].pc = "upd_stamp"]
    /\ UNCHANGED <<threadFrame, config>>

(* `self.last_update = now; return self.current_watts`, and what the       *)
(* caller does with the value the registry call returns.                   *)
UpdateStamp(th) ==
    LET kind == Head(threads[th].calls)
        rest == Tail(threads[th].calls)
        resp == threads[th].resp
    IN /\ threads[th].pc = "upd_stamp"
       /\ device_state' = [device_state EXCEPT !.last_update = threads[th].t]
       /\ threads' = [threads EXCEPT
                         ![th].pc = IF rest = <<>> THEN "reply" ELSE "call",
                         ![th].calls = rest,
                         ![th].resp =
                            IF th # "web" THEN resp
                            ELSE IF kind = "info"
                            THEN [resp EXCEPT !.power_state = device_state.power_state]
                            ELSE IF kind = "consumption"
                            THEN [resp EXCEPT
                                     !.energy_consumption = device_state.current_watts]
                            ELSE IF kind = "total"
                            THEN [resp EXCEPT
                                     !.total_energy = device_state.total_energy_kwh]
                            ELSE resp]
       /\ config' =
             IF th # "rt" THEN config
             ELSE IF kind \in {"set", "consumption"}
             THEN [config EXCEPT !.energy_consumption = device_state.current_watts]
             ELSE IF kind = "total" /\ device_state.total_energy_kwh > 0
             THEN [config EXCEPT !.total_energy = device_state.total_energy_kwh]
             ELSE config
       /\ UNCHANGED threadFrame

(* The handler ends: the HTTP handler returns its response, the runtime    *)
(* hands the StatusResponse built from config to publish_status.           *)
Reply(th) ==
    /\ threads[th].pc = "reply"
    /\ threads' = [threads EXCEPT
                      ![th].pc = "idle",
                      ![th].replied = TRUE,
                      ![th].resp =
                         IF th = "rt" /\ threads[th].op \in {"set_power", "publish_status"}
                         THEN StatusOf(config) ELSE @]
    /\ UNCHANGED <<threadFrame, config, device_state>>

ThreadNext ==
    \/ \E th \in Threads : \E op \in ThreadOps(th) :
          \E arg \in IF op \in {"http_power", "set_power"} THEN BOOLEAN ELSE {FALSE} :
             Begin(th, op, arg)
    \/ \E th \in Threads : EnterCall(th)
    \/ \E th \in Threads : UpdateWatts(th)
    \/ \E th \in Threads : UpdateEnergyRead(th)
    \/ \E th \in Threads : UpdateEnergyWrite(th)
    \/ \E th \in Threads : UpdateStamp(th)
    \/ \E th \in Threads : Reply(th)
    \/ Tick

ThreadSpec == Init /\ [][ThreadNext]_vars

(* ---- the client's methods, called by the owner of the client ---- *)

(* The client was never connected, its connect() returned False, or it    *)
(* was closed.                                                            *)
NotConnected ==
    \/ pc = "connecting" /\ tries = <<>>
    \/ pc = "stopping" /\ connect_result = "false"
    \/ pc = "exited"

(* The methods that publish, and the exchange field each one tests with   *)
(* `if not self.<exchange>: return False`.                                 *)
PublishOps == {"publish_status", "publish_telemetry", "send_command"}

ExchangeOf(op) ==
    CASE op = "publish_status" -> messaging.status_exchange
      [] op = "publish_telemetry" -> messaging.telemetry_exchange
      [] op = "send_command" -> messaging.command_exchange

(* publish_status / publish_telemetry / send_command: False when the      *)
(* exchange field is None; otherwise exchange.publish, True when it       *)
(* returned and False when it raised.                                     *)
Publish(op, raises) ==
    LET sent_it == ExchangeOf(op) /\ ~raises
    IN /\ api' = [n |-> api.n + 1, op |-> op, result |-> sent_it,
                  published |-> IF sent_it THEN 1 ELSE 0]
       /\ UNCHANGED <<messaging, queue_bound>>

(* setup_device_queue: False when channel is None; declare_queue assigns  *)
(* self.device_queue; bind(self.command_exchange, ...) raises when the    *)
(* exchange is None; any exception gives False.                           *)
ClientSetupDeviceQueue(outcome) ==
    LET declared == messaging.channel /\ outcome # "declare"
        bound == declared /\ outcome = "ok" /\ messaging.command_exchange
    IN /\ messaging' = [messaging EXCEPT !.device_queue = IF declared THEN TRUE ELSE @]
       /\ queue_bound' = (queue_bound \/ bound)
       /\ api' = [n |-> api.n + 1, op |-> "setup_device_queue", result |-> bound,
                  published |-> 0]

(* setup_response_listener: False when channel is None; the queue it      *)
(* declares is a local, bound to the status and the telemetry exchange;   *)
(* any exception gives False.                                             *)
SetupResponseListener(outcome) ==
    /\ api' = [n |-> api.n + 1, op |-> "setup_response_listener",
               result |-> /\ messaging.channel
                          /\ outcome = "ok"
                          /\ messaging.status_exchange
                          /\ messaging.telemetry_exchange,
               published |-> 0]
    /\ UNCHANGED <<messaging, queue_bound>>

(* One call of one of the five methods, on a client that is not connected *)
(* or on the client of a running device.                                  *)
ClientCall ==
    /\ NotConnected \/ pc = "running"
    /\ api.n < MaxCalls
    /\ \/ \E op \in PublishOps, raises \in BOOLEAN : Publish(op, raises)
       \/ \E o \in QueueOutcomes : ClientSetupDeviceQueue(o)
       \/ \E o \in QueueOutcomes : SetupResponseListener(o)
    /\ UNCHANGED <<fleet, http, codec, cli, acks, threadVars, registryVars, extra_stops,
                   connectVars, live, orphans, runtimeVars, device_state, now,
                   inbox, sent, handlers, consumerActive, pc, start_result>>

ClientNext ==
    \/ \E o \in ConnectOutcomes : ConnectAttempt(o)
    \/ \E o \in QueueOutcomes : StartSetupQueue(o)
    \/ StartConsuming
    \/ ClientCall
    \/ Interrupt
    \/ StopBegin
    \/ StopTelemetry
    \/ \E r \in BOOLEAN : CloseCancelConsumer(r)
    \/ CloseConnection
    \/ StopUnstarted

ClientSpec == Init /\ [][ClientNext]_vars

(* ---- cli: `status` and `energy` waiting for the device's response ---- *)
cliFrame == <<fleet, http, codec, api, acks, threadVars, registryVars, extra_stops,
              connectVars, clientVars, runtimeVars, device_state, now, brokerVars, pc,
              start_result>>

(* The device the cli asks, and another one publishing on the same broker. *)
CliDevices == {"kitchen_001", "kitchen_002"}

CliTarget == "kitchen_001"

(* The exchange whose messages the response_handler of the command takes. *)
ResponseExchange(command) ==
    IF command = "status" THEN "tasmota.status" ELSE "tasmota.telemetry"

(* `data.get('device_id') == device_id and exchange == ...` *)
IsResponse(msg) ==
    msg.device_id = CliTarget /\ msg.exchange = ResponseExchange(cli.command)

(* `tasmota-sim status <device>` / `energy <device>` is started. *)
CliRun(command) ==
    /\ cli.pc = "idle"
    /\ cli' = [cli EXCEPT !.pc = "connecting", !.command = command]
    /\ UNCHANGED cliFrame

(* `if await messaging.connect()`; the else branch prints the failure. *)
CliConnect(ok) ==
    /\ cli.pc = "connecting"
    /\ cli' = IF ok THEN [cli EXCEPT !.pc = "sending"]
              ELSE [cli EXCEPT !.pc = "closing", !.result = "failed"]
    /\ UNCHANGED cliFrame

(* `success = await messaging.send_command(device_id, command, {})` *)
CliSendCommand(ok) ==
    /\ cli.pc = "sending"
    /\ cli' = [cli EXCEPT !.pc = "listening", !.success = ok]
    /\ UNCHANGED cliFrame

(* `await messaging.setup_response_listener(response_handler)`, after the  *)
(* command was sent: the response queue is declared, bound to both         *)
(* exchanges and consumed; its result is not looked at.  Then `if success` *)
(* goes on to the wait, the else branch prints the failure.                *)
CliSetupListener(ok) ==
    /\ cli.pc = "listening"
    /\ cli' = IF cli.success
              THEN [cli EXCEPT !.pc = "waiting", !.bound = ok]
              ELSE [cli EXCEPT !.pc = "closing", !.bound = ok, !.result = "failed"]
    /\ UNCHANGED cliFrame

(* A device publishes a status or telemetry message: the exchange routes   *)
(* it to the response queue when that queue is bound, and to no queue of   *)
(* the cli otherwise.                                                      *)
DevicePublishes(device, exchange) ==
    LET msg == [device_id |-> device, exchange |-> exchange]
        after_send == cli.pc \in {"listening", "waiting"} /\ cli.success
        reply == after_send /\ IsResponse(msg)
    IN /\ cli.n < MaxCalls
       /\ cli' = [cli EXCEPT
                     !.n = @ + 1,
                     !.queue = IF cli.bound /\ ~cli.closed THEN Append(@, msg) ELSE @,
                     !.replies = IF reply THEN @ + 1 ELSE @,
                     !.lost = IF reply /\ ~cli.bound THEN @ + 1 ELSE @]
       /\ UNCHANGED cliFrame

(* The consumer of the response queue hands the next delivery to           *)
(* response_handler, which sets response_received for a matching message.  *)
CliResponseHandler ==
    /\ cli.pc = "waiting"
    /\ cli.queue # <<>>
    /\ cli' = [cli EXCEPT !.queue = Tail(@),
                          !.received = @ \/ IsResponse(Head(cli.queue))]
    /\ UNCHANGED cliFrame

(* asyncio.wait_for(response_received.wait(), timeout=10.0) returns: the   *)
(* response is displayed.                                                  *)
CliWaitReturns ==
    /\ cli.pc = "waiting"
    /\ cli.received
    /\ cli' = [cli EXCEPT !.pc = "closing", !.result = "reply"]
    /\ UNCHANGED cliFrame

(* The 10 s pass with response_received unset and no delivery pending.     *)
CliTimeout ==
    /\ cli.pc = "waiting"
    /\ ~cli.received
    /\ cli.queue = <<>>
    /\ cli' = [cli EXCEPT !.pc = "closing", !.result = "timeout"]
    /\ UNCHANGED cliFrame

(* `finally: await messaging.close()`: the exclusive queue goes with the   *)
(* connection.                                                             *)
CliClose ==
    /\ cli.pc = "closing"
    /\ cli' = [cli EXCEPT !.pc = "done", !.closed = TRUE, !.bound = FALSE,
                          !.queue = <<>>]
    /\ UNCHANGED cliFrame

CliNext ==
    \/ \E c \in {"status", "energy"} : CliRun(c)
    \/ \E ok \in BOOLEAN : CliConnect(ok)
    \/ \E ok \in BOOLEAN : CliSendCommand(ok)
    \/ \E ok \in BOOLEAN : CliSetupListener(ok)
    \/ \E d \in CliDevices : \E e \in {"tasmota.status", "tasmota.telemetry"} :
          DevicePublishes(d, e)
    \/ CliResponseHandler
    \/ CliWaitReturns
    \/ CliTimeout
    \/ CliClose

CliSpec == Init /\ [][CliNext]_vars

(* ---- the HTTP handlers, one request at a time ---- *)
httpFrame == <<fleet, codec, api, cli, acks, threadVars, registryVars, extra_stops, connectVars, clientVars,
               runtimeVars, now, brokerVars, pc, start_result>>

(* str.upper() / str.lower() on the words the requests use *)
Upper(w) ==
    CASE w \in {"Power", "power"} -> "POWER"
      [] w \in {"Status", "status"} -> "STATUS"
      [] w = "Reboot" -> "REBOOT"
      [] w \in {"toggle", "Toggle"} -> "TOGGLE"
      [] w = "on" -> "ON"
      [] w = "off" -> "OFF"
      [] w = "maybe" -> "MAYBE"
      [] w = "abc" -> "ABC"
      [] OTHER -> w
Lower(w) ==
    CASE w \in {"TOGGLE", "Toggle"} -> "toggle"
      [] w = "ON" -> "on"
      [] w = "OFF" -> "off"
      [] OTHER -> w

(* int(parameter): the words it accepts and their values; any other word   *)
(* raises ValueError.                                                      *)
IntWords == [w \in {"0", "1", "2", "3", "4", "5", "6", "7", "8", "9", "10", "11",
                     "12", "13", "-1", "99"} |->
               CASE w = "0" -> 0 [] w = "1" -> 1 [] w = "2" -> 2 [] w = "3" -> 3
                 [] w = "4" -> 4 [] w = "5" -> 5 [] w = "6" -> 6 [] w = "7" -> 7
                 [] w = "8" -> 8 [] w = "9" -> 9 [] w = "10" -> 10 [] w = "11" -> 11
                 [] w = "12" -> 12 [] w = "13" -> 13 [] w = "-1" -> -1 [] w = "99" -> 99]

(* mutant of LevelAccepted: every integer is a level *)
LevelAcceptedAnyInteger(parameter) == parameter = "" \/ parameter \in DOMAIN IntWords

(* `level = int(parameter) if parameter else 0` without a ValueError, and  *)
(* not `level < 0 or level > 12`.                                          *)
LevelAccepted(parameter) ==
    \/ parameter = ""
    \/ /\ parameter \in DOMAIN IntWords
       /\ ~(IntWords[parameter] < 0 \/ IntWords[parameter] > 12)

(* cmnd.split(): the requests of /cm as their words; <<>> is the empty     *)
(* cmnd.                                                                   *)
Cmnds ==
    { <<>>, <<"Power">>, <<"power", "TOGGLE">>, <<"Power", "on">>, <<"Power", "1">>,
      <<"Power", "OFF">>, <<"Power", "0">>, <<"Power", "maybe">>,
      <<"Status">>, <<"status", "0">>, <<"Status", "1">>, <<"Status", "2">>,
      <<"Status", "3">>, <<"Status", "4">>, <<"Status", "5">>, <<"Status", "6">>,
      <<"Status", "7">>, <<"Status", "8">>, <<"Status", "9">>, <<"Status", "10">>,
      <<"Status", "11">>, <<"Status", "12">>, <<"Status", "13">>, <<"Status", "-1">>, <<"Status", "99">>,
      <<"Status", "abc">>, <<"Status", "1.5">>, <<"Reboot">>, <<"Reboot", "1">> }

(* {state} of POST /power/{state} *)
PowerWords == {"on", "OFF", "Toggle", "toggle", "maybe"}

(* get_status_response(level): the top-level keys of the document *)
StatusBlocks(level) ==
    CASE level = 1 -> {"Status"}
      [] level = 2 -> {"StatusFWR"}
      [] level = 3 -> {"StatusLOG"}
      [] level = 4 -> {"StatusMEM"}
      [] level = 5 -> {"StatusNET"}
      [] level = 6 -> {"StatusMQT"}
      [] level = 7 -> {"StatusTIM"}
      [] level = 9 -> {"StatusPTH"}
      [] level = 10 -> {"StatusSNS"}
      [] level = 11 -> {"StatusSTS"}
      [] level = 12 -> {"StatusCRASH"}
      [] OTHER -> {"Status", "StatusPRM", "StatusFWR", "StatusLOG", "StatusMEM",
                   "StatusNET", "StatusMQT", "StatusTIM", "StatusSTS"}

(* mutant of EnergyBlock: no level carries an ENERGY block *)
EnergyBlockNowhere(level) == {}

(* get_status_response(level): the keys of the ENERGY block of the         *)
(* document, if it has one.                                                *)
EnergyBlock(level) ==
    IF level = 10
    THEN {"TotalStartTime", "Total", "Yesterday", "Today", "Period", "Power",
          "ApparentPower", "ReactivePower", "Factor", "Voltage", "Current"}
    ELSE {}

(* get_realistic_device_data: three registry calls, each with its own      *)
(* update of the entry; power_state is taken from the first, the wattage   *)
(* from the second, the total from the third.                              *)
get_realistic_device_data(st, t) ==
    UNION { UNION { { [reg |-> s3,
                       data |-> [power_state |-> s1.power_state,
                                 energy_consumption |-> s2.current_watts,
                                 total_energy |-> s3.total_energy_kwh]] :
                        s3 \in update_power_consumption(s2, t) } :
                    s2 \in update_power_consumption(s1, t) } :
            s1 \in update_power_consumption(st, t) }

(* The record of a served request. *)
Served(endpoint, creds, arg, response, POWER, run, origin) ==
    [POWER |-> POWER, request |-> [endpoint |-> endpoint, creds |-> creds, arg |-> arg],
     response |-> response, run |-> run, origin |-> origin, n |-> http.n + 1]

Rejected(endpoint, creds, arg, code) ==
    Served(endpoint, creds, arg, [NoResponse EXCEPT !.code = code], http.POWER, 0, FALSE)

(* GET /, GET /status, GET /energy: no credentials are asked for. *)
GetDeviceData(endpoint, creds) ==
    /\ http.n < MaxCalls
    /\ endpoint \in {"/", "/status", "/energy"}
    /\ \E r \in get_realistic_device_data(device_state, now) :
          /\ device_state' = r.reg
          /\ http' = Served(endpoint, creds, <<>>,
                            [code |-> 200,
                             blocks |-> IF endpoint = "/energy" THEN {"EnergyData"}
                                        ELSE {"DeviceInfo"},
                             energy |-> {}, power_state |-> r.data.power_state],
                            http.POWER, 0, FALSE)
    /\ UNCHANGED httpFrame

(* GET /power-profile: get_device_info, no credentials are asked for. *)
GetPowerProfile(creds) ==
    /\ http.n < MaxCalls
    /\ \E s \in update_power_consumption(device_state, now) :
          /\ device_state' = s
          /\ http' = Served("/power-profile", creds, <<>>,
                            [code |-> 200, blocks |-> {"device_info"}, energy |-> {},
                             power_state |-> s.power_state],
                            http.POWER, 0, FALSE)
    /\ UNCHANGED httpFrame

(* POST /power/{state}: no credentials are asked for. *)
SetPower(creds, state) ==
    LET state_lower == Lower(state)
        new_state == IF state_lower = "on" THEN TRUE
                     ELSE IF state_lower = "off" THEN FALSE
                     ELSE ~http.POWER
        toggles == state_lower = "toggle"
    IN /\ http.n < MaxCalls
       /\ IF state_lower \in {"on", "off", "toggle"}
          THEN \E s \in set_device_power_state(device_state, new_state, now) :
                  /\ device_state' = s
                  /\ http' = Served("/power", creds, <<state>>,
                                    [code |-> 200, blocks |-> {"power_state", "message"},
                                     energy |-> {}, power_state |-> new_state],
                                    new_state,
                                    IF ~toggles THEN 0
                                    ELSE IF http.run = 1 THEN 2 ELSE 1,
                                    IF toggles /\ http.run = 1 THEN http.origin
                                    ELSE device_state.power_state)
          ELSE /\ http' = Rejected("/power", creds, <<state>>, 400)
               /\ UNCHANGED device_state
       /\ UNCHANGED httpFrame

(* mutant of NewPowerState: TOGGLE leaves the state as it is *)
NewPowerStateToggleKeeps(parameter, POWER) ==
    IF Upper(parameter) = "TOGGLE" THEN POWER
    ELSE Upper(parameter) \in {"ON", "1", "TRUE"}

(* new_state of the POWER branch of /cm: TOGGLE inverts power_state.POWER, *)
(* ON / 1 / TRUE give True, OFF / 0 / FALSE give False.                    *)
NewPowerState(parameter, POWER) ==
    IF Upper(parameter) = "TOGGLE" THEN ~POWER
    ELSE Upper(parameter) \in {"ON", "1", "TRUE"}

(* GET /cm?cmnd=...: HTTPBasic answers 401 when the request carries no     *)
(* credentials; verify_credentials returns whether they match, and the     *)
(* handler does not look at what it returned.                              *)
Command(creds, cmnd) ==
    LET command == Upper(cmnd[1])
        parameter == IF Len(cmnd) > 1 THEN cmnd[2] ELSE ""
        sets == command = "POWER"
                  /\ Upper(parameter) \in {"TOGGLE", "ON", "1", "TRUE", "OFF", "0", "FALSE"}
        new_state == NewPowerState(parameter, http.POWER)
        level == IF parameter = "" THEN 0 ELSE IntWords[parameter]
    IN /\ http.n < MaxCalls
       /\ IF creds = "none"
          THEN /\ http' = Rejected("/cm", creds, cmnd, 401)
               /\ UNCHANGED device_state
          ELSE IF cmnd = <<>>
          THEN /\ http' = Rejected("/cm", creds, cmnd, 400)
               /\ UNCHANGED device_state
          ELSE IF sets
          THEN \E s \in set_device_power_state(device_state, new_state, now) :
                  /\ device_state' = s
                  /\ http' = Served("/cm", creds, cmnd,
                                    [code |-> 200, blocks |-> {"POWER"}, energy |-> {},
                                     power_state |-> new_state],
                                    new_state, 0, FALSE)
          ELSE IF command = "POWER" /\ parameter = ""
          THEN /\ http' = Served("/cm", creds, cmnd,
                                 [code |-> 200, blocks |-> {"POWER"}, energy |-> {},
                                  power_state |-> http.POWER],
                                 http.POWER, 0, FALSE)
               /\ UNCHANGED device_state
          ELSE IF command = "STATUS" /\ LevelAccepted(parameter)
          THEN \E r \in get_realistic_device_data(device_state, now) :
                  /\ device_state' = r.reg
                  /\ http' = Served("/cm", creds, cmnd,
                                    [code |-> 200, blocks |-> StatusBlocks(level),
                                     energy |-> EnergyBlock(level),
                                     power_state |-> r.data.power_state],
                                    http.POWER, 0, FALSE)
          ELSE /\ http' = Rejected("/cm", creds, cmnd, 400)
               /\ UNCHANGED device_state
       /\ UNCHANGED httpFrame

(* The runtime handles a power command from the broker (_set_power_state). *)
RuntimeSetsPower(state) ==
    /\ \E r \in SetPowerState(config, device_state, state, now) :
          /\ device_state' = r.reg
          /\ config' = r.cfg
    /\ http' = [http EXCEPT !.run = 0]
    /\ UNCHANGED <<fleet, codec, api, cli, acks, threadVars, registryVars, extra_stops, connectVars, clientVars,
                   is_running, status_task, telemetry_task, now, brokerVars, pc,
                   start_result>>

HttpNext ==
    \/ \E e \in {"/", "/status", "/energy"} : \E c \in Credentials : GetDeviceData(e, c)
    \/ \E c \in Credentials : GetPowerProfile(c)
    \/ \E c \in Credentials : \E w \in PowerWords : SetPower(c, w)
    \/ \E c \in Credentials : \E cmnd \in Cmnds : Command(c, cmnd)
    \/ \E ps \in BOOLEAN : RuntimeSetsPower(ps)
    \/ Tick

HttpSpec == Init /\ [][HttpNext]_vars

(* ---- a command from send_command to the consumer's CommandMessage ---- *)
codecFrame == <<fleet, http, api, cli, acks, threadVars, registryVars, extra_stops, connectVars,
                clientVars, runtimeVars, device_state, now, brokerVars, pc, start_result>>

(* The strings callers use as device id, command, payload key and value. *)
Strings ==
    { <<"p", "1">>, <<"#">>, <<"o", "n">>, <<"a", "\"">>, <<"\\", "n">>, <<"\\">>, <<>> }

(* The payload values callers pass: True, False, None, ints, strs, a list  *)
(* and a tuple of ints.                                                    *)
Values ==
    { [NoValue EXCEPT !.k = k] : k \in {"True", "False", "None"} }
      \cup { [NoValue EXCEPT !.k = "int", !.s = <<"7">>] }
      \cup { [NoValue EXCEPT !.k = "str", !.s = s] : s \in {<<"o", "n">>, <<"a", "\"">>} }
      \cup { [NoValue EXCEPT !.k = k, !.items = <<"1", "2">>] : k \in {"list", "tuple"} }

(* The payload dicts callers pass, as sets of <<key, value>>. *)
Payloads ==
    { {} } \cup { { <<key, v>> } : key \in {<<"state">>, <<"\"">>}, v \in Values }

(* The JSON text of a string, between its quotes: the quote and the        *)
(* backslash are written with a backslash before them.                     *)
RECURSIVE Escaped(_)
Escaped(s) ==
    IF s = <<>> THEN <<>>
    ELSE (IF Head(s) \in {"\"", "\\"} THEN <<"\\", Head(s)>> ELSE <<Head(s)>>)
           \o Escaped(Tail(s))

(* mutant of Unescaped: the text is taken as it stands *)
UnescapedNot(s) == s

(* json.loads of the text of a string: a backslash stands for the          *)
(* character after it.                                                     *)
RECURSIVE Unescaped(_)
Unescaped(s) ==
    IF s = <<>> THEN <<>>
    ELSE IF Head(s) = "\\" /\ Len(s) > 1
    THEN <<s[2]>> \o Unescaped(Tail(Tail(s)))
    ELSE <<Head(s)>> \o Unescaped(Tail(s))

(* model_dump_json of a payload value: true, false, null, a number, a      *)
(* string, an array (for a list and for a tuple).                          *)
ToJson(v) ==
    CASE v.k = "True" -> [v EXCEPT !.k = "true"]
      [] v.k = "False" -> [v EXCEPT !.k = "false"]
      [] v.k = "None" -> [v EXCEPT !.k = "null"]
      [] v.k = "int" -> [v EXCEPT !.k = "number"]
      [] v.k = "str" -> [v EXCEPT !.k = "string", !.s = Escaped(v.s)]
      [] v.k \in {"list", "tuple"} -> [v EXCEPT !.k = "array"]

(* json.loads of a value: an array becomes a list. *)
FromJson(j) ==
    CASE j.k = "true" -> [j EXCEPT !.k = "True"]
      [] j.k = "false" -> [j EXCEPT !.k = "False"]
      [] j.k = "null" -> [j EXCEPT !.k = "None"]
      [] j.k = "number" -> [j EXCEPT !.k = "int"]
      [] j.k = "string" -> [j EXCEPT !.k = "str", !.s = Unescaped(j.s)]
      [] j.k = "array" -> [j EXCEPT !.k = "list"]

(* send_command: CommandMessage(device_id, command, payload or {},         *)
(* timestamp) and its model_dump_json() as the body of the message.        *)
(* given = FALSE is the call without a payload.                            *)
SerializeCommand(device_id, command, given, payload) ==
    LET msg == [device_id |-> device_id, command |-> command,
                payload |-> IF given /\ payload # {} THEN payload ELSE {},
                timestamp |-> now]
    IN /\ codec.phase = "idle"
       /\ ~given => payload = {}
       /\ codec' = [phase |-> "sent", given |-> given, sent |-> msg,
                    body |-> [device_id |-> Escaped(msg.device_id),
                              command |-> Escaped(msg.command),
                              payload |-> { <<Escaped(kv[1]), ToJson(kv[2])>> :
                                              kv \in msg.payload },
                              timestamp |-> msg.timestamp],
                    decoded |-> NoMessage]
       /\ UNCHANGED codecFrame

(* message_handler: json.loads of the decoded body, then CommandMessage     *)
(* built from the keys of the document.                                    *)
DecodeCommand ==
    /\ codec.phase = "sent"
    /\ codec' = [codec EXCEPT
                   !.phase = "decoded",
                   !.decoded = [device_id |-> Unescaped(codec.body.device_id),
                                command |-> Unescaped(codec.body.command),
                                payload |-> { <<Unescaped(kv[1]), FromJson(kv[2])>> :
                                                kv \in codec.body.payload },
                                timestamp |-> codec.body.timestamp]]
    /\ UNCHANGED codecFrame

CodecNext ==
    \/ \E device_id \in Strings \ {<<>>} : \E command \in Strings :
         \E given \in BOOLEAN : \E payload \in Payloads :
           SerializeCommand(device_id, command, given, payload)
    \/ DecodeCommand
    \/ Tick

CodecSpec == Init /\ [][CodecNext]_vars

(* ---- several devices on one broker ---- *)
fleetFrame == <<http, codec, api, cli, acks, threadVars, registryVars, extra_stops, connectVars, clientVars,
                runtimeVars, device_state, now, brokerVars, pc, start_result>>

(* setup_device_queue(device_id): the queue is declared under its name and *)
(* bound to tasmota.commands with the device's routing key.                *)
SetupDeviceQueue(device_id) ==
    /\ device_id \notin fleet.bound
    /\ fleet' = [fleet EXCEPT !.bound = @ \cup {device_id}]
    /\ UNCHANGED fleetFrame

(* The queues the topic exchange copies a message with this key to. *)
Routed(bound, key) ==
    { q \in bound : TopicMatches(RoutingKey("command", q), key) }

(* send_command(device_id, command): CommandMessage(device_id, command)    *)
(* is published to tasmota.commands under the device's routing key.        *)
SendCommandTo(device_id, command) ==
    /\ fleet.sent < MaxCommands
    /\ LET key == RoutingKey("command", device_id)
           m == [device_id |-> device_id, command |-> command]
       IN fleet' = [fleet EXCEPT
                      !.sent = @ + 1,
                      !.published = @ \cup {[exchange |-> "tasmota.commands",
                                            routing_key |-> key,
                                            device_id |-> device_id]},
                      !.queues = [q \in FleetIds |->
                                    IF q \in Routed(fleet.bound, key)
                                    THEN Append(fleet.queues[q], m)
                                    ELSE fleet.queues[q]]]
    /\ UNCHANGED fleetFrame

(* publish_status(device_id, ...) / publish_telemetry(device_id, ...) of   *)
(* a device that has started.                                              *)
PublishFrom(device_id, kind) ==
    /\ device_id \in fleet.bound
    /\ fleet' = [fleet EXCEPT
                    !.published = @ \cup {[exchange |-> IF kind = "status"
                                                       THEN "tasmota.status"
                                                       ELSE "tasmota.telemetry",
                                          routing_key |-> RoutingKey(kind, device_id),
                                          device_id |-> device_id]}]
    /\ UNCHANGED fleetFrame

FleetNext ==
    \/ \E d \in FleetIds : SetupDeviceQueue(d)
    \/ \E d \in FleetIds : \E c \in {"power_on", "status"} : SendCommandTo(d, c)
    \/ \E d \in FleetIds : \E k \in {"status", "telemetry"} : PublishFrom(d, k)

FleetSpec == ProfileInit /\ [][FleetNext]_vars

(***************************************************************************)
(* Properties                                                              *)
(***************************************************************************)

Failed(i) == ~tries[i]
StopPath == {"stopping", "stop_telemetry", "closing", "close_conn", "exited"}

(* C1: connect() makes at most 10 attempts; no attempt follows a           *)
(* successful one; it returns true exactly when its last attempt           *)
(* succeeded and false exactly when all 10 attempts failed; once it is     *)
(* over it has returned one of the two.                                    *)
C1_ConnectRetryCap ==
    /\ Len(tries) <= 10
    /\ \A i \in 1..(Len(tries) - 1) : Failed(i)
    /\ connect_result = "true" <=> (tries # <<>> /\ tries[Len(tries)])
    /\ connect_result = "false" <=> (Len(tries) = 10 /\ \A i \in 1..10 : Failed(i))
    /\ pc # "connecting" => connect_result \in {"true", "false"}
    /\ (Len(tries) = 10 /\ ~tries[10]) => pc # "connecting"

(* three failed attempts, then success on the fourth *)
C1_Witness ==
    /\ connect_result = "true"
    /\ Len(tries) = 4
    /\ \A i \in 1..3 : Failed(i)

(* C2: the wait after failed attempt n is min(2 * 1.5^(n-1), 10) seconds   *)
(* (in eighths of a second: min(16 * 1.5^(n-1), 80)); the waits start at   *)
(* 2 s, never decrease, never exceed 10 s; every failed attempt but the    *)
(* tenth is followed by one wait, the tenth by none.                       *)
C2_BackoffDelays ==
    /\ \A n \in 1..Len(waits) :
          /\ waits[n] * 2^(n - 1) = Min(16 * 3^(n - 1), 80 * 2^(n - 1))
          /\ waits[n] <= 80
          /\ n > 1 => waits[n - 1] <= waits[n]
    /\ waits # <<>> => waits[1] = 16
    /\ Len(waits) = Min(Cardinality({i \in 1..Len(tries) : Failed(i)}), 9)

(* all nine waits have been slept and the tenth attempt failed *)
C2_Witness ==
    /\ Len(waits) = 9
    /\ connect_result = "false"

(* C3: when the connection fails or the queue setup fails, start() returns *)
(* false, is_running stays false, no publisher task exists, and the caller *)
(* is not in its run loop but on the way through stop() to its exit.       *)
C3_FailedStart ==
    (pc \notin {"connecting", "setup_queue"} /\ (connect_result = "false" \/ ~queue_bound))
        => /\ start_result = "false"
           /\ ~is_running
           /\ status_task = NoTask
           /\ telemetry_task = NoTask
           /\ pc \in StopPath

(* the connection succeeded, the queue setup failed, stop() has returned *)
C3_Witness ==
    /\ connect_result = "true"
    /\ ~queue_bound
    /\ start_result = "false"
    /\ pc = "exited"

(* The step in which the consumer callback is entered for the head of the  *)
(* queue (the only step that removes a message from it).                   *)
Takes(m) == inbox # <<>> /\ inbox' = Tail(inbox) /\ m = Head(inbox)
PowerCommand(m) == WellFormed(m) /\ m.command \in {"power_on", "power_off"}
UnknownCommand(m) == WellFormed(m) /\ m.command \notin KnownCommands

(* C4: once start() has returned true and the caller is in its run loop,   *)
(* a consumer is registered on the device queue, so that commands routed   *)
(* to the queue are taken and dispatched.                                  *)
C4_ConsumerRunsAfterStart ==
    (start_result = "true" /\ pc = "running") => consumerActive

(* C5: while the handler of a power_on command has not yet published its   *)
(* status (it reports power_state = true), the handling of no further      *)
(* command from the queue has begun: the last delivery made is this one.   *)
C5_StatusBeforeNextCommand ==
    \A h \in handlers :
        (is_running /\ WellFormed(h.msg) /\ h.msg.command = "power_on"
            /\ h.pc = "pub_status")
        => /\ h.payload.power_state
           /\ Delivered = h.tag

(* C6 as stated: when the dispatch of power_on / power_off is over (the    *)
(* delivery is about to be acknowledged) exactly one status message        *)
(* carrying the new power_state has been published.                        *)
C6_ExactlyOneStatusPublished ==
    \A h \in handlers :
        (PowerCommand(h.msg) /\ h.pc = "acking")
        => /\ h.published = 1
           /\ h.payload.power_state = (h.msg.command = "power_on")

(* C6 amended: dispatching power_on (power_off) sets config.power_state    *)
(* and the registry entry's power_state to true (false), recomputes the    *)
(* consumption for that state through the profile model, and makes exactly *)
(* one publish_status call carrying the new power_state; that call puts at *)
(* most one message on the exchange (none when the publish fails).         *)
C6_PowerCommandEffect ==
    [][ /\ \A m \in Bodies :
              (Takes(m) /\ PowerCommand(m)) =>
                  LET s == (m.command = "power_on") IN
                  /\ config'.power_state = s
                  /\ device_state'.power_state = s
                  /\ config'.energy_consumption \in ProfileWatts(s)
                  /\ device_state'.current_watts \in ProfileWatts(s)
                  /\ device_state'.last_update = now
                  /\ \E h \in handlers' \ handlers :
                        /\ h.msg = m
                        /\ h.calls = 1
                        /\ h.payload.power_state = s
                        /\ h.payload.energy_consumption = config'.energy_consumption
        /\ \A h \in handlers' :
              PowerCommand(h.msg) =>
                  /\ h.dispatched
                  /\ h.calls = 1
                  /\ h.published \in {0, 1}
                  /\ h.published = 1 => h.pc = "acking"
                  /\ h.payload.power_state = (h.msg.command = "power_on")
      ]_vars

(* a power_on was dispatched, its status went out and reports true *)
C6_Witness ==
    \E h \in handlers :
        /\ PowerCommand(h.msg) /\ h.msg.command = "power_on"
        /\ h.pc = "acking"
        /\ h.published = 1
        /\ h.payload.power_state
        /\ config.power_state
        /\ device_state.power_state

(* C7: the dispatch of a command with an unknown name changes neither      *)
(* config nor the registry entry, makes no publish call, leaves consumer,  *)
(* connection and runtime as they are, and goes straight on to the         *)
(* acknowledgement of the delivery, by which alone the handler ends.       *)
C7_UnknownCommandIgnored ==
    [][ /\ \A m \in Bodies :
              (Takes(m) /\ UnknownCommand(m)) =>
                  /\ UNCHANGED <<config, device_state, messaging, live,
                                 consumerActive, is_running, status_task,
                                 telemetry_task, pc>>
                  /\ \E h \in handlers' \ handlers :
                        /\ h.msg = m
                        /\ h.dispatched
                        /\ h.pc = "acking"
                        /\ h.calls = 0 /\ h.published = 0
        /\ \A h \in handlers :
              UnknownCommand(h.msg) =>
                  /\ h.pc = "acking" /\ h.calls = 0 /\ h.published = 0
                  /\ h \in handlers' \/ handlers' = handlers \ {h}
      ]_vars

(* an unknown command was dispatched and waits for its acknowledgement *)
C7_Witness ==
    \E h \in handlers :
        /\ UnknownCommand(h.msg)
        /\ h.dispatched
        /\ h.pc = "acking"

(* C8: a body that fails to decode is dropped: the dispatcher is not       *)
(* called, config and the registry entry do not change, the consumer stays *)
(* registered on an open connection, the delivery goes on to be            *)
(* acknowledged; and every well-formed command the consumer takes, later   *)
(* ones included, is passed to the dispatcher.                             *)
C8_MalformedDropped ==
    [][ /\ \A m \in Bodies :
              (Takes(m) /\ ~WellFormed(m)) =>
                  /\ UNCHANGED <<config, device_state, messaging, live,
                                 consumerActive, is_running, status_task,
                                 telemetry_task, pc>>
                  /\ consumerActive' /\ live'
                  /\ \E h \in handlers' \ handlers :
                        /\ h.msg = m
                        /\ ~h.dispatched
                        /\ h.pc = "acking"
                        /\ h.calls = 0 /\ h.published = 0
        /\ \A m \in Bodies :
              (Takes(m) /\ WellFormed(m)) =>
                  \E h \in handlers' \ handlers : h.msg = m /\ h.dispatched
        /\ \A h \in handlers' : h.dispatched = WellFormed(h.msg)
      ]_vars

(* a well-formed command is being handled that was delivered after a       *)
(* malformed message                                                       *)
C8_Witness ==
    \E bad \in handlers : \E good \in handlers :
        /\ ~WellFormed(bad.msg) /\ ~bad.dispatched
        /\ WellFormed(good.msg) /\ good.dispatched
        /\ good.tag > bad.tag

(* C9: a failed tick of a publisher (publish returned false or raised)     *)
(* leaves the publisher in its 30 s (status) or 10 s (telemetry) sleep and *)
(* the runtime running with its caller where it was; and from that sleep,  *)
(* unless the runtime is stopped, the publisher goes on to publish again.  *)
C9_PublishFailureNotFatal ==
    /\ [](status_task.failed =>
              status_task.pc = "sleeping" /\ status_task.sleep_for = StatusInterval)
    /\ [](telemetry_task.failed =>
              telemetry_task.pc = "sleeping"
                  /\ telemetry_task.sleep_for = TelemetryInterval)
    /\ [][ ((status_task'.failed /\ ~status_task.failed)
               \/ (telemetry_task'.failed /\ ~telemetry_task.failed))
           => UNCHANGED <<is_running, pc>> ]_vars
    /\ (status_task.failed /\ is_running)
           ~> (status_task.pc = "publishing" \/ ~is_running)
    /\ (telemetry_task.failed /\ is_running)
           ~> (telemetry_task.pc = "publishing" \/ ~is_running)

(* the status publish failed while the runtime is running; the loop sleeps *)
C9_Witness ==
    /\ is_running
    /\ status_task.failed
    /\ status_task.pc = "sleeping"
    /\ telemetry_task.failed

(* C10: when stop() has returned, neither publisher task nor a command     *)
(* consumer is left, no connection the runtime opened is open, and the     *)
(* runtime is not running.                                                 *)
C10_StopReleasesEverything ==
    pc = "exited"
        => /\ ~Active(status_task)
           /\ ~Active(telemetry_task)
           /\ ~consumerActive
           /\ handlers = {}
           /\ ~live
           /\ ~orphans
           /\ ~is_running

(* The stopped state of a runtime: not running, no publisher task alive,   *)
(* the client holds no connection, channel, exchange or queue.             *)
Stopped ==
    /\ ~is_running
    /\ ~Active(status_task)
    /\ ~Active(telemetry_task)
    /\ messaging = Cleared(messaging)

(* A step of stop(): one of its pieces, or the whole call on a runtime     *)
(* that was never started.                                                 *)
StopStep ==
    \/ pc \in {"stopping", "stop_telemetry", "closing", "close_conn"} /\ pc' # pc
    \/ pc = "connecting" /\ extra_stops' # extra_stops

(* C11: stop() on a runtime that was never started, that failed to start   *)
(* or that is in the stopped state leaves runtime state, client state and  *)
(* the device's power state unchanged.                                     *)
C11_StopOnStoppedIsNoOp ==
    [][ (StopStep /\ (start_result # "true" \/ Stopped))
        => UNCHANGED <<is_running, status_task, telemetry_task, config,
                       messaging, device_state>> ]_vars

(* What does hold of a repeated stop(): a runtime that was never started,  *)
(* and one whose stop() has returned, is in the stopped state, and stop()  *)
(* in the stopped state changes nothing; on a runtime that failed to       *)
(* start, stop() leaves runtime state and power state unchanged.           *)
StopInStoppedStateIsNoOp ==
    /\ []((pc = "exited" \/ (pc = "connecting" /\ tries = <<>>)) => Stopped)
    /\ [][ (StopStep /\ Stopped)
           => UNCHANGED <<is_running, status_task, telemetry_task, config,
                          messaging, device_state, live, orphans,
                          consumerActive, handlers, inbox>> ]_vars
    /\ [][ (StopStep /\ start_result = "false")
           => UNCHANGED <<is_running, status_task, telemetry_task, config,
                          device_state>> ]_vars

(* C12: when close() has returned (stop() returns right after it), the    *)
(* consumption the client had started is cancelled, the connection the     *)
(* client held is closed, and connection, channel, the three exchanges and *)
(* the device queue are cleared.                                           *)
C12_CloseReleasesClient ==
    pc = "exited"
        => /\ ~consumerActive
           /\ ~messaging.is_consuming
           /\ ~live
           /\ messaging = Cleared(messaging)

(* ---- properties of the profile registry (ProfileSpec) ---- *)

(* A call was made on the registry in this step, on device d. *)
CallOn(d) == call'.n = call.n + 1 /\ call'.device = d

(* The call of this step went into update_power_consumption of the entry   *)
(* that d already had.                                                     *)
UpdatesEntry(d) == CallOn(d) /\ Present(d) /\ call'.op # "assign"

(* C13: across successive calls of update_power_consumption on a device's  *)
(* entry, total_energy_kwh never decreases, whatever the power state, the  *)
(* profile and the elapsed time between the calls (also a negative one,    *)
(* after the clock was set back).                                          *)
C13_TotalEnergyNonDecreasing ==
    [][ \A d \in Devices :
           UpdatesEntry(d) =>
              device_states'[d].total_energy_kwh >= device_states[d].total_energy_kwh
      ]_vars

(* A second call on an entry, after time has passed, has added energy. *)
C13_Witness ==
    /\ call.n = 2
    /\ call.op = "get"
    /\ device_states[call.device].last_update > 0
    /\ device_states[call.device].total_energy_kwh > 0

(* The last call went into update_power_consumption of d's entry. *)
LastUpdated(d) ==
    call.device = d /\ call.op \in {"set_on", "set_off", "get"} /\ Present(d)

(* standby_watts * (1 + variation_factor), in the unit of current_watts *)
StandbyCeiling(profile) == profile.standby_watts * 100 * (100 + profile.variation_factor)

(* C14: for every profile, an update made while power_state is false       *)
(* stores a wattage in [0, standby_watts * (1 + variation_factor)].        *)
C14_StandbyWattsInRange ==
    \A d \in Devices :
       (LastUpdated(d) /\ ~device_states[d].power_state) =>
          /\ device_states[d].current_watts >= 0
          /\ device_states[d].current_watts <= StandbyCeiling(device_states[d].profile)

(* An update of a switched-off entry has stored the top of the range. *)
C14_Witness ==
    /\ call.op = "set_off"
    /\ ~device_states[call.device].power_state
    /\ device_states[call.device].current_watts
          = StandbyCeiling(device_states[call.device].profile)
    /\ device_states[call.device].current_watts > 0

(* The largest value of a non-empty finite set of numbers. *)
Largest(S) == CHOOSE x \in S : \A y \in S : y <= x

(* The largest factors update_power_consumption can apply for a profile. *)
MaxTimeFactor(profile) ==
    IF profile.time_of_day_factor
    THEN Largest({ get_time_of_day_factor(profile, h) : h \in Hours }) ELSE 10
MaxSeasonalFactor(profile) ==
    IF profile.seasonal_factor
    THEN Largest({ get_seasonal_factor(profile, m) : m \in Months }) ELSE 10
MaxCycleFactor(profile) ==
    Largest({ get_cycle_factor([NoEntry EXCEPT !.profile = profile,
                                               !.cycle_position = q], 0, FALSE).factor :
                 q \in 0..3 })

(* max_watts * max(time/seasonal factor) * (1 + variation_factor), in the  *)
(* unit of current_watts, times a cycle factor in tenths.                  *)
ActiveCeiling(profile, cycle_factor) ==
    profile.base_watts_max * MaxTimeFactor(profile) * MaxSeasonalFactor(profile)
       * cycle_factor * (100 + profile.variation_factor)

(* C15 as stated: for every profile, hour and month, an update made while  *)
(* power_state is true stores a wattage in                                 *)
(* [0, max_watts * max(time/seasonal factor) * (1 + variation_factor)].    *)
C15_ActiveWattsInRange ==
    \A d \in Devices :
       (LastUpdated(d) /\ device_states[d].power_state) =>
          /\ device_states[d].current_watts >= 0
          /\ device_states[d].current_watts
                <= ActiveCeiling(device_states[d].profile, 10)

(* C15, amended: the wattage is never negative and lies within the stated  *)
(* range widened by the largest cycle factor of the profile (1.2 heating,  *)
(* 1.3 cooling, 1.0 without a cycle period); for a profile without a cycle *)
(* period that is the stated range.                                        *)
C15_ActiveWattsInCycleRange ==
    \A d \in Devices :
       (LastUpdated(d) /\ device_states[d].power_state) =>
          /\ device_states[d].current_watts >= 0
          /\ device_states[d].current_watts
                <= ActiveCeiling(device_states[d].profile,
                                 MaxCycleFactor(device_states[d].profile))
          /\ device_states[d].profile.cycle_minutes = 0 =>
                device_states[d].current_watts
                   <= ActiveCeiling(device_states[d].profile, 10)

(* A switched-on cycling entry was updated at the peak of its cycle and    *)
(* stored more than the stated range allows.                               *)
C15_Witness ==
    /\ call.op \in {"set_on", "get"}
    /\ Present(call.device)
    /\ device_states[call.device].power_state
    /\ device_states[call.device].profile.cycle_minutes # 0
    /\ device_states[call.device].cycle_position = 1
    /\ device_states[call.device].current_watts
          > ActiveCeiling(device_states[call.device].profile, 10)
    /\ device_states[call.device].current_watts
          = ActiveCeiling(device_states[call.device].profile,
                          MaxCycleFactor(device_states[call.device].profile))

(* C16: set_device_power_state(off) directly followed by                   *)
(* set_device_power_state(on) on the same device never resets or lowers    *)
(* total_energy_kwh: the total after the two calls is at least the total   *)
(* before them.                                                            *)
C16_ToggleKeepsTotalEnergy ==
    call.toggled => device_states[call.device].total_energy_kwh >= call.before

(* An entry that had accumulated energy was switched off and on, with      *)
(* time passing between the two calls.                                     *)
C16_Witness ==
    /\ call.toggled
    /\ call.before > 0
    /\ device_states[call.device].power_state
    /\ device_states[call.device].total_energy_kwh > call.before

(* ---- properties of the two threads (ThreadSpec) ---- *)

(* The thread is inside update_power_consumption: it has read the clock    *)
(* and last_update and has not yet stored last_update.                     *)
InUpdate(th) == threads[th].pc \in {"upd_watts", "upd_energy", "upd_total", "upd_stamp"}

(* C17: update_power_consumption and set_device_power_state on one device  *)
(* are atomic with respect to each other: the HTTP thread and the runtime  *)
(* thread are never both between the first read and the last write of one  *)
(* of them.                                                                *)
C17_UpdatesAtomic == ~(InUpdate("web") /\ InUpdate("rt"))

(* C18: the power_state and the energy_consumption of one HTTP status      *)
(* response come from one snapshot of the entry: the wattage reported is a *)
(* wattage of the power state reported.                                    *)
C18_NoTornStatus ==
    (threads["web"].replied /\ threads["web"].op = "http_status") =>
       threads["web"].resp.energy_consumption
          \in ProfileWatts(threads["web"].resp.power_state)

(* The runtime hands a status message to publish_status in this step. *)
Publishes ==
    /\ threads["rt"].pc = "reply"
    /\ threads["rt"].op \in {"set_power", "publish_status"}
    /\ threads'["rt"].pc = "idle"

(* C19: every status message the runtime publishes reports the power_state *)
(* the registry holds for the device at that moment.                       *)
C19_StatusReportsRegistryPowerState ==
    [][ Publishes => threads'["rt"].resp.power_state = device_state.power_state ]_vars

(* ---- properties of the broker topology (FleetSpec) ---- *)

(* C21: a command sent to device d is published under                      *)
(* device.command.<d> and reaches no queue but the command queue of d;     *)
(* status and telemetry of d are published under device.status.<d> and     *)
(* device.telemetry.<d>.                                                   *)
C21_CommandsReachOnlyTheirDevice ==
    /\ \A q \in FleetIds :
          \A i \in 1..Len(fleet.queues[q]) : fleet.queues[q][i].device_id = q
    /\ \A p \in fleet.published :
          p.routing_key =
             RoutingKey(CASE p.exchange = "tasmota.commands" -> "command"
                          [] p.exchange = "tasmota.status" -> "status"
                          [] p.exchange = "tasmota.telemetry" -> "telemetry",
                        p.device_id)

C22_UnauthenticatedRejected ==
    [][ (http'.n = http.n + 1
           /\ http'.request.endpoint \in {"/status", "/energy", "/power", "/cm",
                                          "/power-profile"}
           /\ http'.request.creds # "right")
        => (http'.response.code = 401
              /\ device_state'.power_state = device_state.power_state) ]_vars

(* C23 as stated: an authenticated /cm?cmnd=Status 9 returns a document    *)
(* with an ENERGY block holding Power, Voltage and Current.                *)
C23_Status9HasEnergyBlock ==
    http.request = [endpoint |-> "/cm", creds |-> "right", arg |-> <<"Status", "9">>]
        => /\ http.response.code = 200
           /\ {"Power", "Voltage", "Current"} \subseteq http.response.energy

(* C23: an authenticated /cm?cmnd=Status 10 returns the StatusSNS document *)
(* whose ENERGY block holds Power, Voltage and Current; Status 9 returns   *)
(* the StatusPTH document of power thresholds, which has no ENERGY block.  *)
C23_Status10HasEnergyBlock ==
    /\ http.request = [endpoint |-> "/cm", creds |-> "right", arg |-> <<"Status", "10">>]
          => /\ http.response.code = 200
             /\ http.response.blocks = {"StatusSNS"}
             /\ {"Power", "Voltage", "Current"} \subseteq http.response.energy
    /\ http.request = [endpoint |-> "/cm", creds |-> "right", arg |-> <<"Status", "9">>]
          => /\ http.response.code = 200
             /\ http.response.blocks = {"StatusPTH"}
             /\ http.response.energy = {}

C23_Witness ==
    /\ http.request = [endpoint |-> "/cm", creds |-> "right", arg |-> <<"Status", "10">>]
    /\ http.response.code = 200
    /\ "Power" \in http.response.energy

(* C24: a /cm request that carries credentials and asks for a Status level *)
(* outside 0..12 (13, -1, 99), a Status level that is not an integer, or a *)
(* command other than Power and Status is answered with 400, and neither  *)
(* the registry entry nor the runtime's config nor power_state.POWER       *)
(* changes.                                                                *)
C24_BadCommandRejected ==
    [][ (http'.n = http.n + 1 /\ http'.request.endpoint = "/cm"
           /\ http'.request.creds # "none"
           /\ http'.request.arg \in
                 { <<"Status", "13">>, <<"Status", "-1">>, <<"Status", "99">>,
                   <<"Status", "abc">>, <<"Status", "1.5">>, <<"Reboot">>,
                   <<"Reboot", "1">> })
        => (http'.response.code = 400 /\ device_state' = device_state
              /\ config' = config /\ http'.POWER = http.POWER) ]_vars

C24_Witness ==
    /\ http.request = [endpoint |-> "/cm", creds |-> "right", arg |-> <<"Status", "13">>]
    /\ http.response.code = 400
    /\ device_state.total_energy_kwh > 0

(* C25: after two /power/toggle requests in a row the registry's           *)
(* power_state is what it was before the first, and the second response    *)
(* reports that state.                                                     *)
C25_ToggleTwiceRestores ==
    http.run = 2 => /\ device_state.power_state = http.origin
                    /\ http.response.power_state = http.origin

(* ---- the command round trip ---- *)

(* C26 as stated: the decoded CommandMessage has the device_id, command    *)
(* and payload of the one sent, for every payload.                         *)
C26_RoundTripEveryPayload ==
    codec.phase = "decoded"
        => /\ codec.decoded.device_id = codec.sent.device_id
           /\ codec.decoded.command = codec.sent.command
           /\ codec.decoded.payload = codec.sent.payload

(* C26: the decoded CommandMessage has the device_id and command of the    *)
(* one sent; its payload has the same keys, every value that JSON has      *)
(* (true, false, null, number, string, array as list) is identical, a      *)
(* tuple comes back as the list of its items; a call without a payload     *)
(* yields the empty object.                                                *)
C26_RoundTripJsonPayload ==
    codec.phase = "decoded"
        => /\ codec.decoded.device_id = codec.sent.device_id
           /\ codec.decoded.command = codec.sent.command
           /\ codec.decoded.timestamp = codec.sent.timestamp
           /\ codec.decoded.payload
                = { <<kv[1], IF kv[2].k = "tuple" THEN [kv[2] EXCEPT !.k = "list"]
                             ELSE kv[2]>> : kv \in codec.sent.payload }
           /\ ~codec.given => codec.decoded.payload = {}

C26_Witness ==
    /\ codec.phase = "decoded"
    /\ codec.sent.device_id = <<"a", "\"">>
    /\ codec.body.device_id = <<"a", "\\", "\"">>
    /\ \E kv \in codec.decoded.payload : kv[2].k = "str" /\ kv[2].s = <<"a", "\"">>

(* ---- the registry entry over the process lifetime ---- *)

(* C27: once a device has an entry in the registry, no later registry      *)
(* operation replaces it: its profile stays the same and its               *)
(* total_energy_kwh is not reset.                                          *)
C27_EntryLivesOn ==
    [][ \A d \in Devices :
          Present(d) => /\ device_states'[d].profile = device_states[d].profile
                        /\ device_states'[d].total_energy_kwh
                              >= device_states[d].total_energy_kwh ]_vars

(* C28: an update of an entry adds to total_energy_kwh exactly the newly    *)
(* computed current_watts times the time elapsed since last_update         *)
(* (scaled to kWh) when that time is positive and nothing when it is zero  *)
(* or negative, and it always sets last_update to the time of the call.    *)
C28_EnergyIntegration ==
    [][ \A d \in Devices :
          UpdatesEntry(d) =>
             LET elapsed == now - device_states[d].last_update
             IN /\ device_states'[d].last_update = now
                /\ device_states'[d].total_energy_kwh
                      = device_states[d].total_energy_kwh
                          + (IF elapsed > 0
                             THEN (device_states'[d].current_watts * elapsed)
                                      \div EnergyScale
                             ELSE 0) ]_vars

(* An update made two ticks after the one before it, on an entry that    *)
(* already held energy, has added the new wattage times two.               *)
C28_Witness ==
    /\ call.op = "set_off"
    /\ call.before > 0
    /\ device_states["A"].last_update = now
    /\ device_states["A"].current_watts > 0
    /\ device_states["A"].total_energy_kwh
          = call.before + (device_states["A"].current_watts * 2) \div EnergyScale

(* C29: cycle_position is within [0.0, 1.0) (quarters 0..3) after every    *)
(* update; an update of a switched-on entry whose profile has a cycle      *)
(* period moves it by the elapsed share of the cycle modulo 1.0, and an    *)
(* update of an entry whose profile has no cycle period leaves it as it    *)
(* was.                                                                    *)
C29_CyclePositionWraps ==
    [][ \A d \in Devices :
          UpdatesEntry(d) =>
             LET old == device_states[d]
                 new == device_states'[d]
             IN /\ new.cycle_position \in 0..3
                /\ (new.power_state /\ old.profile.cycle_minutes # 0)
                      => new.cycle_position
                           = (old.cycle_position + (now - old.last_update)) % 4
                /\ old.profile.cycle_minutes = 0
                      => new.cycle_position = old.cycle_position ]_vars

(* ---- the status and energy commands (ConsumerSpec) ---- *)

(* C30 as stated: when the dispatch of a status (energy) command is over   *)
(* exactly one status (telemetry) message has been published.              *)
C30_ExactlyOneReplyPublished ==
    \A h \in handlers :
        (WellFormed(h.msg) /\ h.msg.command \in {"status", "energy"} /\ h.pc = "acking")
        => h.published = 1

(* C30 amended: dispatching status makes, within the handler and without   *)
(* waiting for a publisher tick, exactly one publish_status call with the  *)
(* current config values and leaves config and the registry entry as they  *)
(* are; dispatching energy runs _update_energy and makes exactly one       *)
(* publish_telemetry call, leaving power_state unchanged in config and in  *)
(* the registry entry; either call puts at most one message on the         *)
(* exchange (none when the publish fails).                                 *)
C30_StatusEnergyCommandEffect ==
    [][ /\ \A m \in Bodies :
              (Takes(m) /\ WellFormed(m) /\ m.command = "status") =>
                  /\ UNCHANGED <<config, device_state>>
                  /\ \E h \in handlers' \ handlers :
                        /\ h.msg = m
                        /\ h.calls = 1
                        /\ h.pc = IF messaging.status_exchange THEN "pub_status"
                                  ELSE "acking"
                        /\ h.payload = StatusOf(config)
        /\ \A m \in Bodies :
              (Takes(m) /\ WellFormed(m) /\ m.command = "energy") =>
                  /\ config'.power_state = config.power_state
                  /\ device_state'.power_state = device_state.power_state
                  /\ device_state'.last_update = now
                  /\ \E h \in handlers' \ handlers :
                        /\ h.msg = m
                        /\ h.calls = 1
                        /\ h.pc = IF messaging.telemetry_exchange THEN "pub_telemetry"
                                  ELSE "acking"
                        /\ h.payload.power_state = config.power_state
        /\ \A h \in handlers' :
              (WellFormed(h.msg) /\ h.msg.command \in {"status", "energy"}) =>
                  /\ h.dispatched
                  /\ h.calls = 1
                  /\ h.published \in {0, 1}
                  /\ h.published = 1 => h.pc = "acking"
      ]_vars

(* a status and an energy command were dispatched and both replies went    *)
(* out                                                                     *)
C30_Witness ==
    /\ \E h \in handlers :
          WellFormed(h.msg) /\ h.msg.command = "status" /\ h.pc = "acking" /\ h.published = 1
    /\ \E h \in handlers :
          WellFormed(h.msg) /\ h.msg.command = "energy" /\ h.pc = "acking" /\ h.published = 1

(* C31: publish_status, publish_telemetry, send_command,                    *)
(* setup_device_queue and setup_response_listener, called on a client that  *)
(* is not connected (never connected, connect failed, or closed), return    *)
(* False, publish nothing and leave the client's state as it was.           *)
C31_NotConnectedCallIsRefused ==
    [][(api'.n = api.n + 1 /\ NotConnected)
          => /\ ~api'.result
             /\ api'.published = 0
             /\ messaging' = messaging]_vars


C33_StatusLevelSpecific ==
    (http.request.endpoint = "/cm" /\ http.request.creds = "right"
       /\ Len(http.request.arg) > 0 /\ Upper(http.request.arg[1]) = "STATUS")
    => LET parameter == IF Len(http.request.arg) > 1 THEN http.request.arg[2] ELSE ""
       IN /\ parameter \in {"", "0"}
             => /\ http.response.code = 200
                /\ http.response.blocks = StatusBlocks(0)
          /\ (parameter \in DOMAIN IntWords /\ IntWords[parameter] \in 1..12)
             => /\ http.response.code = 200
                /\ Cardinality(http.response.blocks) = 1
                /\ http.response.blocks # StatusBlocks(0)
                /\ \A l \in (1..12) \ {IntWords[parameter]} :
                      StatusBlocks(l) # http.response.blocks


C35_FlagAgreesWithRegistry ==
    /\ http.POWER = device_state.power_state
    /\ (/\ http.response.code = 200
        /\ \/ http.request.endpoint = "/power"
           \/ /\ http.request.endpoint = "/cm"
              /\ Len(http.request.arg) > 0
              /\ Upper(http.request.arg[1]) = "POWER")
       => http.response.power_state = device_state.power_state


(* C36: the total_energy a runtime reports (config.total_energy, copied    *)
(* into every status and telemetry message) never decreases, starting from *)
(* the value generate_device_config gave it.                               *)
C36_ReportedTotalNeverFalls ==
    [][config'.total_energy >= config.total_energy]_vars


(* C37: while the HTTP thread and the runtime thread both run              *)
(* update_power_consumption on the device, total_energy_kwh never          *)
(* decreases: every store of the sum keeps what the other thread added.    *)
C37_ConcurrentTotalNeverFalls ==
    [][device_state'.total_energy_kwh >= device_state.total_energy_kwh]_vars


(* C38: once stop() has returned, the runtime takes no further command     *)
(* from its queue, changes neither its config nor the registry entry, runs *)
(* no publisher tick and no publish of a command handler goes out.         *)
C38_QuietAfterStop ==
    [][ pc = "exited"
        => /\ Len(inbox') >= Len(inbox)
           /\ UNCHANGED <<config, device_state, status_task, telemetry_task>>
           /\ \A h \in handlers' \ handlers : h.published = 0 ]_vars


(* C39: with the response listener of `status` / `energy` set up, every    *)
(* matching message the device published after the command was sent has   *)
(* reached the response queue, and the wait does not end in the timeout    *)
(* when such a message was published.                                      *)
C39_ListenerReceivesEveryReply ==
    /\ cli.bound => cli.lost = 0
    /\ (cli.result = "timeout" /\ cli.bound) => cli.replies = 0

====
